---- MODULE Spec2Model ----
(***************************************************************************)
(* Process-control equipment simulations: the on/off valve supervisor      *)
(* (valve_control_opcua.c), the flow control valve (Control_valve_flow.c), *)
(* the analog transmitter (transmitter_opcua.c) and the three-phase        *)
(* separator (seperator.c).  Each program is a separate executable with    *)
(* its own global model object; each gets its own specification here.      *)
(***************************************************************************)
EXTENDS Integers, Sequences, FiniteSets, TLC

VARIABLES valve,          \* OnOffValve valve            (valve_control_opcua.c:60)
          cycle_time_ms,  \* argument of Valve_Update held over a run of calls
          ncalls,         \* number of Update calls made so far in the run
          valve0,         \* the OnOffValve the run of calls started from
          fcv,            \* FlowControlValve flow_control_valve (Control_valve_flow.c:39)
          fcv_clock,      \* the processor time clock() returns, in ticks
          fcv_last,       \* what the last step of the flow valve program was
          transmitter,    \* Transmitter transmitter      (transmitter_opcua.c:38)
          tx_increasing,  \* static bool increasing       (transmitter_opcua.c:99)
          tx_calls,       \* number of Transmitter_Update calls made so far
          tx_last,        \* what the last step of the transmitter program was
          separator,      \* SeparatorSimulator separator (seperator.c:50)
          sep_calls,      \* number of Separator_Update calls made so far
          running,        \* volatile bool running       (valve_control_opcua.c:61)
          pc,             \* where main is in its loop    (valve_control_opcua.c:325)
          polls,          \* reads of running made in the cycle in progress
          stop_updates    \* Valve_Update calls started since stopHandler ran

driverVars == <<running, pc, polls, stop_updates>>
valveVars == <<valve, cycle_time_ms, ncalls, valve0, driverVars>>
flowVars == <<fcv, fcv_clock, fcv_last>>
txVars == <<transmitter, tx_increasing, tx_calls, tx_last>>
sepVars == <<separator, sep_calls>>
vars == <<valveVars, flowVars, txVars, sepVars>>

(***************************************************************************)
(* uint32_t.  TLC's integers are 32-bit signed, so a uint32_t is held as   *)
(* <<high 16 bits, low 16 bits>>; addition wraps modulo 2^32 as in C.      *)
(***************************************************************************)
Half == 65536

U32(n) == <<n \div Half, n % Half>>

U32Max == <<Half - 1, Half - 1>>

U32Add(a, b) ==
    LET lo == a[2] + b[2]
        hi == a[1] + b[1] + (lo \div Half)
    IN  <<hi % Half, lo % Half>>

U32Geq(a, b) == a[1] > b[1] \/ (a[1] = b[1] /\ a[2] >= b[2])

\* whether a + b, computed without wrapping, is below 2^32
U32AddFits(a, b) == a[1] + b[1] + ((a[2] + b[2]) \div Half) < Half

(***************************************************************************)
(* double.  IEEE-754 binary64 arithmetic, round to nearest, ties to even.  *)
(* A finite double is s * (h * 2^27 + l) * 2^e with the 53-bit significand *)
(* h * 2^27 + l in [2^52, 2^53) (TLC's integers are 32-bit, hence the two  *)
(* limbs), or zero.  Exponent overflow, subnormals and the sign of zero    *)
(* are not modelled: e is unbounded and every zero is +0.                  *)
(***************************************************************************)
W == 2^27

\* the number of bits of a natural below 2^31
BitLen8(n) ==
    IF n >= 16 THEN (IF n >= 64 THEN (IF n >= 128 THEN 8 ELSE 7) ELSE (IF n >= 32 THEN 6 ELSE 5))
    ELSE IF n >= 4 THEN (IF n >= 8 THEN 4 ELSE 3)
    ELSE IF n >= 2 THEN 2 ELSE n
BitLen(n) ==
    IF n >= 2^16 THEN (IF n >= 2^24 THEN 24 + BitLen8(n \div 2^24) ELSE 16 + BitLen8(n \div 2^16))
    ELSE IF n >= 2^8 THEN 8 + BitLen8(n \div 2^8) ELSE BitLen8(n)

\* Two-limb naturals <<h, l>> = h * 2^27 + l, below 2^58.
PNorm(h, l) == <<h + (l \div W), l % W>>
PAdd(a, b) == PNorm(a[1] + b[1], a[2] + b[2])
PSub(a, b) == PNorm(a[1] - b[1], a[2] - b[2])
PLt(a, b) == a[1] < b[1] \/ (a[1] = b[1] /\ a[2] < b[2])
PDbl(a) == PNorm(2 * a[1], 2 * a[2])
PBitLen(a) == IF a[1] > 0 THEN 27 + BitLen(a[1]) ELSE BitLen(a[2])

\* floor(a / 2^d)
PShr(a, d) ==
    IF d = 0 THEN a
    ELSE IF d < 27 THEN <<a[1] \div 2^d, (a[2] \div 2^d) + (a[1] % 2^d) * 2^(27 - d)>>
    ELSE IF d < 58 THEN PNorm(0, a[1] \div 2^(d - 27))
    ELSE <<0, 0>>

\* whether a mod 2^d is not zero
PSticky(a, d) ==
    IF d = 0 THEN FALSE
    ELSE IF d <= 27 THEN a[2] % 2^d # 0
    ELSE IF d < 58 THEN a[2] # 0 \/ a[1] % 2^(d - 27) # 0
    ELSE a # <<0, 0>>

\* a * 2^k, the result below 2^58
RECURSIVE PShl(_, _)
PShl(a, k) ==
    IF k = 0 THEN a
    ELSE IF k >= 27 THEN PShl(<<a[2], 0>>, k - 27)
    ELSE <<a[1] * 2^k + (a[2] \div 2^(27 - k)), (a[2] % 2^(27 - k)) * 2^k>>

FZero == [k |-> "fin", s |-> 1, h |-> 0, l |-> 0, e |-> 0]
FNaN == [k |-> "nan", s |-> 1, h |-> 0, l |-> 0, e |-> 0]
FInf(sgn) == [k |-> "inf", s |-> sgn, h |-> 0, l |-> 0, e |-> 0]

IsNaN(a) == a.k = "nan"
IsInf(a) == a.k = "inf"
IsFinite(a) == a.k = "fin"
IsZero(a) == a.k = "fin" /\ a.h = 0 /\ a.l = 0
\* a is finite and not zero
FNormal(a) == a.k = "fin" /\ a.h > 0
FMant(a) == <<a.h, a.l>>
\* the sign of a as -1, 0 or 1 (a not NaN)
FSign(a) == IF IsZero(a) THEN 0 ELSE a.s

\* the double s * q * 2^e for 2^52 <= q <= 2^53
FPack(sgn, q, e) ==
    IF q = <<2^26, 0>>
    THEN [k |-> "fin", s |-> sgn, h |-> 2^25, l |-> 0, e |-> e + 1]
    ELSE [k |-> "fin", s |-> sgn, h |-> q[1], l |-> q[2], e |-> e]

\* p with its low d >= 1 bits rounded away, ties to even
RoundShr(p, d, sticky) ==
    IF PShr(p, d - 1)[2] % 2 = 1 /\ (sticky \/ PSticky(p, d - 1) \/ PShr(p, d)[2] % 2 = 1)
    THEN PAdd(PShr(p, d), <<0, 1>>)
    ELSE PShr(p, d)

\* FRound for p of n >= 1 bits
FRoundBits(sgn, p, e, sticky, n) ==
    IF n <= 53 THEN FPack(sgn, PShl(p, 53 - n), e - (53 - n))
    ELSE FPack(sgn, RoundShr(p, n - 53, sticky), e + (n - 53))

\* s * p * 2^e (p a two-limb natural; `sticky': a nonzero fraction below p
\* was dropped) rounded to the nearest double, ties to even.
FRound(sgn, p, e, sticky) ==
    IF p = <<0, 0>> THEN FZero ELSE FRoundBits(sgn, p, e, sticky, PBitLen(p))

\* (double)n for an int n
FInt(n) == FRound(IF n < 0 THEN -1 ELSE 1, PNorm(0, IF n < 0 THEN -n ELSE n), 0, FALSE)

\* a * 2^n
FScale(a, n) == IF IsFinite(a) /\ ~IsZero(a) THEN [a EXCEPT !.e = @ + n] ELSE a

FNeg(a) == IF IsNaN(a) \/ IsZero(a) THEN a ELSE [a EXCEPT !.s = -a.s]
FAbs(a) == IF IsNaN(a) THEN a ELSE [a EXCEPT !.s = 1]

\* floor(Y / 2^d) with the dropped bits kept as a sticky last bit
StickyShr(Y, d) ==
    IF PSticky(Y, d) /\ PShr(Y, d)[2] % 2 = 0
    THEN <<PShr(Y, d)[1], PShr(Y, d)[2] + 1>>
    ELSE PShr(Y, d)

\* X * 2^e with sign xs plus Y * 2^e with sign ys
FAddMant(xs, X, ys, Y, e) ==
    IF xs = ys THEN FRound(xs, PAdd(X, Y), e, FALSE)
    ELSE IF PLt(X, Y) THEN FRound(ys, PSub(Y, X), e, FALSE)
    ELSE FRound(xs, PSub(X, Y), e, FALSE)

\* x + y for finite nonzero x, y with x.e >= y.e: the significands are
\* aligned with three guard bits
FAddAligned(x, y) ==
    FAddMant(x.s, PShl(FMant(x), 3), y.s, StickyShr(PShl(FMant(y), 3), x.e - y.e), x.e - 3)

\* a + b when a or b is NaN, infinite or zero
FAddSpecial(a, b) ==
    IF IsNaN(a) \/ IsNaN(b) THEN FNaN
    ELSE IF IsInf(a) THEN (IF IsInf(b) /\ b.s # a.s THEN FNaN ELSE a)
    ELSE IF IsInf(b) THEN b
    ELSE IF IsZero(a) THEN b
    ELSE a

\* a + b
FAdd(a, b) ==
    IF FNormal(a) /\ FNormal(b)
    THEN (IF a.e >= b.e THEN FAddAligned(a, b) ELSE FAddAligned(b, a))
    ELSE FAddSpecial(a, b)

\* a - b
FSub(a, b) == FAdd(a, FNeg(b))

\* x * y for x, y below 2^27, as a two-limb natural
Mul27(x, y) ==
    LET x1 == x \div 2^14
        x0 == x % 2^14
        y1 == y \div 2^14
        y0 == y % 2^14
        mid == x1 * y0 + x0 * y1
    IN  PNorm(2 * x1 * y1 + (mid \div 2^13), x0 * y0 + (mid % 2^13) * 2^14)

\* the digits <<d3, d2, d1, d0>> (base 2^27) of the sum of the partial
\* products HH * 2^54 + (HL + LH) * 2^27 + LL
MulDigits(h, t2, d1, d0) == <<h + (t2 \div W), t2 % W, d1, d0>>
MulCarry(LL, LH, HL, HH, t1) ==
    MulDigits(HH[1], LH[1] + HL[1] + HH[2] + (t1 \div W), t1 % W, LL[2])
MulAcc(LL, LH, HL, HH) == MulCarry(LL, LH, HL, HH, LL[1] + LH[2] + HL[2])

\* a * b for two-limb naturals below 2^54, as four base-2^27 digits, most
\* significant first
Mul54(a, b) ==
    MulAcc(Mul27(a[2], b[2]), Mul27(a[2], b[1]), Mul27(a[1], b[2]), Mul27(a[1], b[1]))

\* s * d * 2^(e - 50) rounded, d the four digits of a 105 or 106 bit product
FMulRound(sgn, d, e) ==
    FRound(sgn, <<d[1] * 2^4 + (d[2] \div 2^23), (d[2] % 2^23) * 2^4 + (d[3] \div 2^23)>>,
           e, d[3] % 2^23 # 0 \/ d[4] # 0)

\* a * b when a or b is NaN, infinite or zero
FMulSpecial(a, b) ==
    IF IsNaN(a) \/ IsNaN(b) THEN FNaN
    ELSE IF IsInf(a) \/ IsInf(b)
         THEN (IF IsZero(a) \/ IsZero(b) THEN FNaN ELSE FInf(a.s * b.s))
    ELSE FZero

\* a * b
FMul(a, b) ==
    IF FNormal(a) /\ FNormal(b)
    THEN FMulRound(a.s * b.s, Mul54(FMant(a), FMant(b)), a.e + b.e + 50)
    ELSE FMulSpecial(a, b)

\* One step of long division in base 2^11: for r < D, 2^52 <= D < 2^53, the
\* digit floor(r * 2^11 / D) and the remainder r * 2^11 - digit * D.  The
\* digit is estimated from the leading 17 bits (never too large, at most one
\* too small) and corrected; the remainder is computed modulo 2^57.
DivEstimate(r, D) == (PShr(r, 36)[2] * 2^11) \div (PShr(D, 36)[2] + 1)
\* qhat * D mod 2^57 from the partial products Bh = D[1] * qhat, Bl = D[2] * qhat
DivProduct(Bh, Bl) == <<((Bh[1] % 8) * W + Bh[2] + Bl[1]) % 2^30, Bl[2]>>
DivWrap(d0) == <<d0[1] % 2^30, d0[2]>>
\* r * 2^11 - qhat * D
DivRem(r, D, qhat) ==
    DivWrap(PSub(<<(r[1] % 2^19) * 2^11 + (r[2] \div 2^16), (r[2] % 2^16) * 2^11>>,
                 DivProduct(Mul27(D[1], qhat), Mul27(D[2], qhat))))
DivFix(qhat, r0, D) ==
    IF PLt(r0, D) THEN <<qhat, r0>>
    ELSE IF PLt(PSub(r0, D), D) THEN <<qhat + 1, PSub(r0, D)>>
    ELSE <<qhat + 2, PSub(PSub(r0, D), D)>>
DivStep(r, D, qhat) == DivFix(qhat, DivRem(r, D, qhat), D)
DivDigit(r, D) == DivStep(r, D, DivEstimate(r, D))

\* n more digits after the digit and remainder c: <<digits, remainder>>
RECURSIVE DivDigits(_, _, _, _)
DivDigits(c, D, acc, n) ==
    IF n = 0 THEN <<Append(acc, c[1]), c[2]>>
    ELSE DivDigits(DivDigit(c[2], D), D, Append(acc, c[1]), n - 1)

\* the quotient's integer bit and 55 fraction bits, rounded
FDivRound(sgn, q, e) ==
    FRound(sgn,
           <<q[1][1] * 2^28 + q[1][2] * 2^17 + q[1][3] * 2^6 + (q[1][4] \div 2^5),
             (q[1][4] % 2^5) * 2^22 + q[1][5] * 2^11 + q[1][6]>>,
           e, q[2] # <<0, 0>>)

\* A / D for significands A, D: the integer bit, then five base-2^11 digits
DivMant(A, D) ==
    DivDigits(IF PLt(A, D) THEN <<0, A>> ELSE <<1, PSub(A, D)>>, D, <<>>, 5)

\* a / b when a or b is NaN, infinite or zero
FDivSpecial(a, b) ==
    IF IsNaN(a) \/ IsNaN(b) THEN FNaN
    ELSE IF IsInf(a) THEN (IF IsInf(b) THEN FNaN ELSE FInf(a.s * b.s))
    ELSE IF IsInf(b) THEN FZero
    ELSE IF IsZero(b) THEN (IF IsZero(a) THEN FNaN ELSE FInf(a.s))
    ELSE FZero

\* a / b
FDiv(a, b) ==
    IF FNormal(a) /\ FNormal(b)
    THEN FDivRound(a.s * b.s, DivMant(FMant(a), FMant(b)), a.e - b.e - 55)
    ELSE FDivSpecial(a, b)

\* c * c for a two-limb natural c below 2^54, as four base-2^27 digits
Square(c) == Mul54(c, c)

\* whether the four-digit sq is M * 2^54, or at most that
SquareIs(sq, M) == <<sq[1], sq[2]>> = M /\ sq[3] = 0 /\ sq[4] = 0
SquareAtMost(sq, M) == PLt(<<sq[1], sq[2]>>, M) \/ SquareIs(sq, M)
\* whether c * c <= M * 2^54
SquareLeq(c, M) == SquareAtMost(Square(c), M)

\* floor(sqrt(M * 2^54)), reached from an estimate c
RECURSIVE SqrtAdjust(_, _)
SqrtAdjust(c, M) ==
    IF ~SquareLeq(c, M) THEN SqrtAdjust(PSub(c, <<0, 1>>), M)
    ELSE IF SquareLeq(PAdd(c, <<0, 1>>), M) THEN SqrtAdjust(PAdd(c, <<0, 1>>), M)
    ELSE c

\* floor(sqrt(t)) approximately: n steps of Newton's iteration from g
RECURSIVE ISqrtNewton(_, _, _)
ISqrtNewton(t, est, n) ==
    IF n = 0 THEN est ELSE ISqrtNewton(t, (est + (t \div est)) \div 2, n - 1)

\* (y + x / y) / 2
SqrtNewton(x, y) == FScale(FAdd(y, FDiv(x, y)), -1)

\* sqrt(M) to nearly full precision for a natural 2^52 <= M < 2^54: a
\* 15-bit estimate from the leading 30 bits, then two Newton steps
SqrtEstimate(M) ==
    SqrtNewton(FRound(1, M, 0, FALSE),
               SqrtNewton(FRound(1, M, 0, FALSE),
                          FRound(1, <<0, ISqrtNewton(PShr(M, 24)[2] + PShr(M, 24)[1] * W, 2^15, 4)>>,
                                 12, FALSE)))

\* the double y as a natural times 2^-27
SqrtFixed(y) == PShl(FMant(y), y.e + 27)

\* root * 2^e rounded, root = floor(sqrt(M * 2^54))
SqrtRound(root, M, e) == FRound(1, root, e, ~SquareIs(Square(root), M))
SqrtMant(M, e) == SqrtRound(SqrtAdjust(SqrtFixed(SqrtEstimate(M)), M), M, e)
\* j is 54 or 55, of the parity of a.e
SqrtScaled(a, j) == SqrtMant(PShl(FMant(a), j - 54), (a.e - j) \div 2)

\* sqrt(a): the integer square root of the significand scaled to 107 or 108
\* bits, estimated by Newton's iteration and corrected, then rounded
FSqrt(a) ==
    IF FNormal(a) /\ a.s > 0 THEN SqrtScaled(a, IF a.e % 2 = 0 THEN 54 ELSE 55)
    ELSE IF IsNaN(a) THEN FNaN
    ELSE IF IsZero(a) THEN FZero
    ELSE IF a.s < 0 THEN FNaN
    ELSE a

\* a < b
FLt(a, b) ==
    IF IsNaN(a) \/ IsNaN(b) THEN FALSE
    ELSE IF IsInf(a) \/ IsInf(b)
         THEN (IF IsInf(a) /\ IsInf(b) THEN a.s < b.s
               ELSE IF IsInf(a) THEN a.s < 0 ELSE b.s > 0)
    ELSE IF FSign(a) # FSign(b) THEN FSign(a) < FSign(b)
    ELSE IF FSign(a) = 0 THEN FALSE
    ELSE LET less == a.e < b.e \/ (a.e = b.e /\ PLt(FMant(a), FMant(b)))
             more == b.e < a.e \/ (a.e = b.e /\ PLt(FMant(b), FMant(a)))
         IN  IF a.s > 0 THEN less ELSE more

\* a == b, a <= b, a > b, a >= b
FEq(a, b) == ~IsNaN(a) /\ ~IsNaN(b) /\ a = b
FLe(a, b) == FLt(a, b) \/ FEq(a, b)
FGt(a, b) == FLt(b, a)
FGe(a, b) == FLe(b, a)

\* fmin, fmax: a NaN argument is treated as missing
fmin(a, b) == IF IsNaN(a) THEN b ELSE IF IsNaN(b) THEN a ELSE IF FLt(b, a) THEN b ELSE a
fmax(a, b) == IF IsNaN(a) THEN b ELSE IF IsNaN(b) THEN a ELSE IF FLt(a, b) THEN b ELSE a
fabs(a) == FAbs(a)

\* the decimal literal n / d (n, d ints), e.g. 0.029 is FRat(29, 1000)
FRat(n, d) == FDiv(FInt(n), FInt(d))


(***************************************************************************)
(* <math.h>.  fmod is exact, as IEEE-754 requires.  sin and pow are        *)
(* computed by argument reduction and Taylor series in double arithmetic;  *)
(* they agree with the C library to within a few units in the last place.  *)
(***************************************************************************)
\* (int)a, truncated toward zero, for |a| < 2^31
FToInt(a) ==
    IF ~IsFinite(a) \/ IsZero(a) \/ a.e < -57 THEN 0
    ELSE a.s * (PShr(FMant(a), -a.e)[1] * W + PShr(FMant(a), -a.e)[2])

\* the integer nearest to a, for |a| < 2^30
FNearestInt(a) == FToInt(FAdd(a, [k |-> "fin", s |-> IF FSign(a) < 0 THEN -1 ELSE 1, h |-> 2^25, l |-> 0, e |-> -53]))

\* (r * 2^n) mod D for two-limb naturals r < D
ModStep(r2, D) == IF PLt(r2, D) THEN r2 ELSE PSub(r2, D)
RECURSIVE ModShift(_, _, _)
ModShift(r, D, n) ==
    IF n = 0 THEN r ELSE ModShift(ModStep(PDbl(r), D), D, n - 1)

\* fmod(x, y): x - n * y for the integer n = trunc(x / y), computed exactly
fmod(x, y) ==
    IF IsNaN(x) \/ IsNaN(y) \/ IsInf(x) \/ IsZero(y) THEN FNaN
    ELSE IF IsInf(y) \/ IsZero(x) THEN x
    ELSE IF FLt(FAbs(x), FAbs(y)) THEN x
    ELSE FRound(x.s, ModShift(ModStep(FMant(x), FMant(y)), FMant(y), x.e - y.e), y.e, FALSE)

RECURSIVE Fact(_)
Fact(n) == IF n <= 1 THEN 1 ELSE n * Fact(n - 1)

\* 1 / n!
RECURSIVE InvFact(_)
InvFact(n) == IF n <= 12 THEN FRat(1, Fact(n)) ELSE FDiv(InvFact(n - 1), FInt(n))

\* cs[1] + x * (cs[2] + x * (... + x * cs[Len(cs)])), from the innermost
\* term outward: acc is the value of the terms above i
RECURSIVE HornerFrom(_, _, _, _)
HornerFrom(cs, x, i, acc) ==
    IF IsNaN(acc) \/ i = 0 THEN acc
    ELSE HornerFrom(cs, x, i - 1, FAdd(cs[i], FMul(x, acc)))
Horner(cs, x) == HornerFrom(cs, x, Len(cs) - 1, cs[Len(cs)])

\* pi/2 in three pieces (33 + 33 + 53 bits) and 2/pi
PIO2_1 == [k |-> "fin", s |-> 1, h |-> 52707178, l |-> 71303168, e |-> -52]
PIO2_2 == [k |-> "fin", s |-> 1, h |-> 35032099, l |-> 39845888, e |-> -86]
PIO2_3 == [k |-> "fin", s |-> 1, h |-> 40055109, l |-> 100888691, e |-> -121]
TWO_OVER_PI == [k |-> "fin", s |-> 1, h |-> 42722829, l |-> 97110147, e |-> -53]
\* ln 2 in two pieces (32 + 53 bits) and 1 / ln 2
LN2_HI == [k |-> "fin", s |-> 1, h |-> 46516319, l |-> 115343360, e |-> -53]
LN2_LO == [k |-> "fin", s |-> 1, h |-> 55000550, l |-> 91831414, e |-> -85]
INV_LN2 == [k |-> "fin", s |-> 1, h |-> 48408812, l |-> 86737662, e |-> -52]
\* the significand of sqrt(2)
SQRT2_MANT == <<47453132, 109001677>>

\* -1/3!, 1/5!, ..., 1/17!
SinCoef == [i \in 1 .. 8 |-> IF i % 2 = 1 THEN FNeg(InvFact(2 * i + 1)) ELSE InvFact(2 * i + 1)]
\* 1/4!, -1/6!, ..., 1/20!
CosCoef == [i \in 1 .. 9 |-> IF i % 2 = 1 THEN InvFact(2 * i + 2) ELSE FNeg(InvFact(2 * i + 2))]
\* 1/0!, 1/1!, ..., 1/14!
ExpCoef == [i \in 1 .. 15 |-> InvFact(i - 1)]
\* 1/3, 1/5, ..., 1/25
LogCoef == [i \in 1 .. 12 |-> FRat(1, 2 * i + 1)]

\* sin and cos on [-pi/4, pi/4]; z is r * r
SinPoly(r, z) == FAdd(r, FMul(FMul(r, z), Horner(SinCoef, z)))
CosPoly(z) == FAdd(FSub(FInt(1), FScale(z, -1)), FMul(FMul(z, z), Horner(CosCoef, z)))
SinKernel(r) == SinPoly(r, FMul(r, r))
CosKernel(r) == CosPoly(FMul(r, r))

\* x - n * pi/2, n given as the double nf
SinReduce(x, nf) ==
    FSub(FSub(FSub(x, FMul(nf, PIO2_1)), FMul(nf, PIO2_2)), FMul(nf, PIO2_3))
FNegIf(c, v) == IF c THEN FNeg(v) ELSE v
\* sin(r + n * pi/2)
SinQuadrant(n, r) == FNegIf(n % 4 >= 2, IF n % 2 = 0 THEN SinKernel(r) ELSE CosKernel(r))
SinOf(x, n) == SinQuadrant(n, SinReduce(x, FInt(n)))

\* sin(x), |x| < 2^20
sin(x) == IF ~IsFinite(x) THEN FNaN ELSE SinOf(x, FNearestInt(FMul(x, TWO_OVER_PI)))

\* t - n * ln 2, n given as the double nf
ExpReduce(t, nf) == FSub(FSub(t, FMul(nf, LN2_HI)), FMul(nf, LN2_LO))
ExpOf(t, n) == FScale(Horner(ExpCoef, ExpReduce(t, FInt(n))), n)

\* exp(t) when t is NaN, infinite, zero, above 710 or below -746
FExpSpecial(t) ==
    IF IsNaN(t) THEN FNaN
    ELSE IF IsZero(t) THEN FInt(1)
    ELSE IF t.s > 0 THEN FInf(1)
    ELSE FZero

\* exp(t)
FExp(t) ==
    IF FNormal(t) /\ ~FLt(FInt(710), t) /\ ~FLt(t, FInt(-746))
    THEN ExpOf(t, FNearestInt(FMul(t, INV_LN2)))
    ELSE FExpSpecial(t)

\* log(f) + n * ln 2 for f in [sqrt(1/2), sqrt(2)) from z = (f - 1) / (f + 1):
\* log(f) = 2z + 2z * w * (1/3 + w/5 + ...), w = z * z
LogPoly(z2, w) == FAdd(z2, FMul(FMul(z2, w), Horner(LogCoef, w)))
LogSum(lf, nf) == FAdd(FMul(nf, LN2_HI), FAdd(lf, FMul(nf, LN2_LO)))
LogSeries(z, n) == LogSum(LogPoly(FScale(z, 1), FMul(z, z)), FInt(n))
LogOf(f, n) == LogSeries(FDiv(FSub(f, FInt(1)), FAdd(f, FInt(1))), n)
LogSplit(x, big) ==
    LogOf([x EXCEPT !.e = IF big THEN -53 ELSE -52], x.e + 52 + (IF big THEN 1 ELSE 0))

\* log(x) for finite x > 0
FLog(x) == LogSplit(x, PLt(SQRT2_MANT, FMant(x)))

\* pow(x, y) when x is not positive and finite, or y is not finite and
\* nonzero, or one of them is 1; a negative base is taken to have a
\* non-integer exponent
PowSpecial(x, y) ==
    IF IsZero(y) THEN FInt(1)
    ELSE IF x = FInt(1) THEN x
    ELSE IF IsNaN(x) \/ IsNaN(y) THEN FNaN
    ELSE IF y = FInt(1) THEN x
    ELSE IF IsZero(x) THEN (IF FSign(y) > 0 THEN FZero ELSE FInf(1))
    ELSE IF FSign(x) < 0 THEN FNaN
    ELSE IF IsInf(x) THEN (IF FSign(y) > 0 THEN x ELSE FZero)
    ELSE IF FLt(x, FInt(1)) = (FSign(y) < 0) THEN FInf(1)
    ELSE FZero

\* pow(x, y)
pow(x, y) ==
    IF FNormal(x) /\ x.s > 0 /\ FNormal(y) /\ x # FInt(1) /\ y # FInt(1)
    THEN FExp(FMul(y, FLog(x)))
    ELSE PowSpecial(x, y)

\* (double)u for a uint32_t u
U32ToDouble(u) == FRound(1, <<u[1] \div 2^11, (u[1] % 2^11) * 2^16 + u[2]>>, 0, FALSE)

(***************************************************************************)
(* On/off valve supervisor: valve_control_opcua.c                          *)
(***************************************************************************)
VALVE_CLOSED == 0
VALVE_OPENING == 1
VALVE_OPEN == 2
VALVE_CLOSING == 3
VALVE_FAULT == 4

SOLENOID_ESD == 0
SOLENOID_PSD == 1
SOLENOID_PCS == 2

\* Valve_Init: memset 0, then the four assignments.
Valve_Init ==
    [param |-> [solenoid_count |-> 3,
                esd_latching   |-> FALSE,
                travel_time_ms |-> U32(5000)],
     state |-> [current_state       |-> VALVE_CLOSED,
                target_state        |-> VALVE_CLOSED,
                state_timer         |-> U32(0),
                esd_latched         |-> FALSE,
                solenoids_energized |-> <<FALSE, FALSE, FALSE>>],
     io    |-> [solenoid_cmds    |-> <<FALSE, FALSE, FALSE>>,
                ls_open          |-> FALSE,
                ls_close         |-> FALSE,
                reset_cmd        |-> FALSE,
                solenoid_outputs |-> <<FALSE, FALSE, FALSE>>,
                valve_moving     |-> FALSE,
                fault            |-> FALSE]]

\* all_solenoids_energized over the whole array, whatever solenoid_count is.
all_solenoids_energized_WholeArray(v) ==
    \A i \in 0 .. 2 : v.io.solenoid_cmds[i + 1]

\* for (i = 0; i < solenoid_count; i++) if (!solenoid_cmds[i]) { false; break; }
\* (C index i is Sequence index i + 1)
all_solenoids_energized(v) ==
    \A i \in 0 .. (v.param.solenoid_count - 1) : v.io.solenoid_cmds[i + 1]

\* Valve_CaseClosed that starts the stroke without resetting the timer.
Valve_CaseClosed_NoTimerReset(v, cycle) ==
    IF all_solenoids_energized(v)
    THEN [v EXCEPT !.state.current_state = VALVE_OPENING,
                   !.io.valve_moving = TRUE]
    ELSE v

\* case VALVE_CLOSED
Valve_CaseClosed(v, cycle) ==
    IF all_solenoids_energized(v)
    THEN [v EXCEPT !.state.current_state = VALVE_OPENING,
                   !.state.state_timer = U32(0),
                   !.io.valve_moving = TRUE]
    ELSE v

\* Valve_CaseTravel with the comparison written > instead of >=.
Valve_CaseTravel_StrictGt(v, cycle, reached) ==
    LET t == U32Add(v.state.state_timer, cycle)
        w == [v EXCEPT !.state.state_timer = t]
    IN  IF U32Geq(t, v.param.travel_time_ms) /\ t # v.param.travel_time_ms
        THEN [w EXCEPT !.state.current_state = reached,
                       !.io.valve_moving = FALSE]
        ELSE w

\* case VALVE_OPENING and case VALVE_CLOSING: the timer is advanced first,
\* then compared with the travel time; `reached' is the state entered.
Valve_CaseTravel(v, cycle, reached) ==
    LET t == U32Add(v.state.state_timer, cycle)
        w == [v EXCEPT !.state.state_timer = t]
    IN  IF U32Geq(t, v.param.travel_time_ms)
        THEN [w EXCEPT !.state.current_state = reached,
                       !.io.valve_moving = FALSE]
        ELSE w

\* Valve_CaseOpen that forgets to raise valve_moving and to reset the timer.
Valve_CaseOpen_NoMoving(v, cycle) ==
    IF ~all_solenoids_energized(v)
    THEN [v EXCEPT !.state.current_state = VALVE_CLOSING]
    ELSE v

\* case VALVE_OPEN that never starts the closing stroke.
Valve_CaseOpen_StayOpen(v, cycle) == v

\* case VALVE_OPEN
Valve_CaseOpen(v, cycle) ==
    IF ~all_solenoids_energized(v)
    THEN [v EXCEPT !.state.current_state = VALVE_CLOSING,
                   !.state.state_timer = U32(0),
                   !.io.valve_moving = TRUE]
    ELSE v

\* Valve_CaseFault that leaves reset_cmd set (a level, not a pulse).
Valve_CaseFault_KeepReset(v, cycle) ==
    IF v.io.reset_cmd
    THEN [v EXCEPT !.state.current_state = VALVE_CLOSED,
                   !.io.fault = FALSE]
    ELSE v

\* case VALVE_FAULT
Valve_CaseFault(v, cycle) ==
    IF v.io.reset_cmd
    THEN [v EXCEPT !.state.current_state = VALVE_CLOSED,
                   !.io.fault = FALSE,
                   !.io.reset_cmd = FALSE]
    ELSE v

\* default:
Valve_CaseDefault(v, cycle) ==
    [v EXCEPT !.state.current_state = VALVE_FAULT,
              !.io.fault = TRUE]

\* Valve_Update whose switch has no case for VALVE_CLOSING, which then takes
\* the default branch.
Valve_Update_NoClosingCase(v, cycle) ==
    CASE v.state.current_state = VALVE_CLOSED  -> Valve_CaseClosed(v, cycle)
      [] v.state.current_state = VALVE_OPENING -> Valve_CaseTravel(v, cycle, VALVE_OPEN)
      [] v.state.current_state = VALVE_OPEN    -> Valve_CaseOpen(v, cycle)
      [] v.state.current_state = VALVE_FAULT   -> Valve_CaseFault(v, cycle)
      [] OTHER                                 -> Valve_CaseDefault(v, cycle)

\* void Valve_Update(OnOffValve *valve, uint32_t cycle_time_ms)
Valve_Update(v, cycle) ==
    CASE v.state.current_state = VALVE_CLOSED  -> Valve_CaseClosed(v, cycle)
      [] v.state.current_state = VALVE_OPENING -> Valve_CaseTravel(v, cycle, VALVE_OPEN)
      [] v.state.current_state = VALVE_OPEN    -> Valve_CaseOpen(v, cycle)
      [] v.state.current_state = VALVE_CLOSING -> Valve_CaseTravel(v, cycle, VALVE_CLOSED)
      [] v.state.current_state = VALVE_FAULT   -> Valve_CaseFault(v, cycle)
      [] OTHER                                 -> Valve_CaseDefault(v, cycle)

\* The nodes addValveObject registers with the write callback onValueChanged,
\* and the data type each is registered with.
ValveNodes ==
    {"TravelTime", "ESDLatching", "SolenoidESD", "SolenoidPSD", "SolenoidPCS",
     "ResetLatch", "ValveState", "LimitSwitchOpen", "LimitSwitchClose",
     "ValveMoving", "Fault"}

\* onValueChanged(nodeId, data): only a scalar Boolean written to one of the
\* three solenoid nodes changes the model; every other write is dropped.
onValueChanged(v, nodeId, isBoolean, newValue) ==
    IF ~isBoolean THEN v
    ELSE IF nodeId = "SolenoidESD"
         THEN [v EXCEPT !.io.solenoid_cmds[SOLENOID_ESD + 1] = newValue]
    ELSE IF nodeId = "SolenoidPSD"
         THEN [v EXCEPT !.io.solenoid_cmds[SOLENOID_PSD + 1] = newValue]
    ELSE IF nodeId = "SolenoidPCS"
         THEN [v EXCEPT !.io.solenoid_cmds[SOLENOID_PCS + 1] = newValue]
    ELSE v

\* The cycle time main passes to Valve_Update.
VALVE_CYCLE_MS == 100

(***************************************************************************)
(* Flow control valve: Control_valve_flow.c                                *)
(***************************************************************************)
\* <time.h>: clock() counts processor time in units of 1/CLOCKS_PER_SEC s.
CLOCKS_PER_SEC == 1000000

\* The cycle time main passes to the Update function and sleeps for.
DEFAULT_CYCLE_TIME_MS == 100

FlowControlValve_Init ==
    [config |-> [control_signal       |-> FInt(50),
                 upstream_pressure    |-> FInt(5),
                 kv                   |-> FInt(10),
                 valve_characteristic |-> 1],
     state  |-> [valve_opening |-> FInt(50),
                 flow          |-> FZero],
     error  |-> [stiction_threshold       |-> FRat(5, 10),
                 dead_time_seconds        |-> FZero,
                 hysteresis_percent       |-> FZero,
                 positioner_error_percent |-> FZero,
                 last_control_signal      |-> FInt(50),
                 last_update_time         |-> FZero]]

ClampPercent_UpperOnly(x) == fmin(x, FInt(100))

\* fmin(fmax(x, 0.0), 100.0)
ClampPercent(x) == fmin(fmax(x, FZero), FInt(100))

\* double R = 50.0: the rangeability of the equal-percentage characteristic
R == FInt(50)

FlowFraction_Closing(valve_characteristic, valve_opening) ==
    IF valve_characteristic = 0
    THEN FDiv(FSub(FInt(100), valve_opening), FInt(100))
    ELSE FDiv(FSub(pow(R, FDiv(FSub(FInt(100), valve_opening), FInt(100))), FInt(1)),
              FSub(R, FInt(1)))

\* f_opening: the fraction of kv available at a valve opening
FlowFraction(valve_characteristic, valve_opening) ==
    IF valve_characteristic = 0
    THEN FDiv(valve_opening, FInt(100))
    ELSE FDiv(FSub(pow(R, FDiv(valve_opening, FInt(100))), FInt(1)),
              FSub(R, FInt(1)))

\* now: (double)clock() / CLOCKS_PER_SEC with clock() returning clk
FlowNow(clk) == FDiv(FInt(clk), FInt(CLOCKS_PER_SEC))

FlowInDeadTime_Inclusive(v, clk) ==
    FLe(FSub(FlowNow(clk), v.error.last_update_time), v.error.dead_time_seconds)

\* whether a call at processor time clk returns before doing anything
FlowInDeadTime(v, clk) ==
    FLt(FSub(FlowNow(clk), v.error.last_update_time), v.error.dead_time_seconds)

\* stiction: a change of the clamped signal below the threshold is ignored
FlowStiction(v, control_signal) ==
    IF FLt(fabs(FSub(control_signal, v.error.last_control_signal)), v.error.stiction_threshold)
    THEN v.error.last_control_signal
    ELSE control_signal

\* hysteresis: added in the direction the signal moved
FlowHysteresis(v, control_signal) ==
    IF FGt(control_signal, v.error.last_control_signal) THEN v.error.hysteresis_percent
    ELSE IF FLt(control_signal, v.error.last_control_signal)
         THEN FNeg(v.error.hysteresis_percent)
    ELSE FZero

\* valve_opening from the signal after hysteresis and its clamp
FlowOpening(v, control_signal) ==
    ClampPercent(FMul(control_signal,
                      FAdd(FInt(1), FDiv(v.error.positioner_error_percent, FInt(100)))))

\* flow = Cv_eff * sqrt(delta_p)
FlowRate(v, valve_opening) ==
    FMul(FMul(v.config.kv, FlowFraction(v.config.valve_characteristic, valve_opening)),
         FSqrt(FSub(v.config.upstream_pressure, FInt(1))))

\* the stores of an accepted update; control_signal is the signal after stiction
FlowStore(v, now, control_signal, valve_opening) ==
    [v EXCEPT !.error.last_update_time = now,
              !.error.last_control_signal = control_signal,
              !.state.valve_opening = valve_opening,
              !.state.flow = FlowRate(v, valve_opening)]

\* FlowMove that stores the signal after the hysteresis offset as
\* last_control_signal.
FlowMove_StoreAfterOffset(v, now, control_signal) ==
    FlowStore(v, now,
              ClampPercent(FAdd(control_signal, FlowHysteresis(v, control_signal))),
              FlowOpening(v, ClampPercent(FAdd(control_signal,
                                               FlowHysteresis(v, control_signal)))))

FlowMove(v, now, control_signal) ==
    FlowStore(v, now, control_signal,
              FlowOpening(v, ClampPercent(FAdd(control_signal,
                                               FlowHysteresis(v, control_signal)))))

\* FlowControlValve_Update(valve, cycle_time_ms) with clock() returning clk;
\* the function does not use cycle_time_ms.
FlowControlValve_Update(v, cycle, clk) ==
    IF FlowInDeadTime(v, clk) THEN v
    ELSE FlowMove(v, FlowNow(clk), FlowStiction(v, ClampPercent(v.config.control_signal)))

\* assignIfMatch: the value is copied when the name matches and the written
\* variant is a scalar of the expected type.
assignIfMatch(browseName, name, dataType, type) == browseName = name /\ dataType = type

\* onConfigChanged, the write callback of the eight Configuration and Errors
\* nodes, for a scalar write of `value' of type dataType
FlowOnConfigChanged(v, browseName, dataType, value) ==
    IF assignIfMatch(browseName, "ControlSignal", dataType, "Double")
        THEN [v EXCEPT !.config.control_signal = value]
    ELSE IF assignIfMatch(browseName, "UpstreamPressure", dataType, "Double")
        THEN [v EXCEPT !.config.upstream_pressure = value]
    ELSE IF assignIfMatch(browseName, "Kv", dataType, "Double")
        THEN [v EXCEPT !.config.kv = value]
    ELSE IF assignIfMatch(browseName, "ValveCharacteristic", dataType, "Int32")
        THEN [v EXCEPT !.config.valve_characteristic = value]
    ELSE IF assignIfMatch(browseName, "StictionThreshold", dataType, "Double")
        THEN [v EXCEPT !.error.stiction_threshold = value]
    ELSE IF assignIfMatch(browseName, "DeadTime", dataType, "Double")
        THEN [v EXCEPT !.error.dead_time_seconds = value]
    ELSE IF assignIfMatch(browseName, "Hysteresis", dataType, "Double")
        THEN [v EXCEPT !.error.hysteresis_percent = value]
    ELSE IF assignIfMatch(browseName, "PositionerError", dataType, "Double")
        THEN [v EXCEPT !.error.positioner_error_percent = value]
    ELSE v

\* The flow valve program before main's loop has run.
FlowAtStart ==
    /\ fcv = FlowControlValve_Init
    /\ fcv_clock = 0
    /\ fcv_last = "init"

(***************************************************************************)
(* Transmitter: transmitter_opcua.c                                        *)
(***************************************************************************)
\* #define PI 3.14159265
PI == FRat(314159265, 100000000)

Transmitter_Init ==
    [config |-> [min_range         |-> FZero,
                 max_range         |-> FInt(100),
                 min_scale         |-> FInt(-5),
                 max_scale         |-> FInt(105),
                 step_size         |-> FInt(1),
                 simulation_active |-> FALSE,
                 sine_wave         |-> FALSE,
                 sawtooth_wave     |-> TRUE,
                 overflow          |-> FALSE,
                 underflow         |-> FALSE],
     state  |-> [current_value   |-> FZero,
                 simulation_time |-> FZero,
                 fault           |-> FALSE]]

\* time_step = (double)cycle_time_ms / 1000.0
TxTimeStep(cycle) == FDiv(U32ToDouble(cycle), FInt(1000))

\* simulation_time += time_step
TxAdvance(tx, time_step) ==
    [tx EXCEPT !.state.simulation_time = FAdd(@, time_step)]

\* min_range + ((max_range - min_range) / 2.0) * (1.0 + sin(2 * PI * 0.1 * simulation_time))
TxSine(tx) ==
    [tx EXCEPT !.state.current_value =
        FAdd(tx.config.min_range,
             FMul(FDiv(FSub(tx.config.max_range, tx.config.min_range), FInt(2)),
                  FAdd(FInt(1),
                       sin(FMul(FMul(FMul(FInt(2), PI), FRat(1, 10)),
                                tx.state.simulation_time)))))]

\* period = 10.0; phase = fmod(simulation_time, period) / period;
\* min_range + (max_range - min_range) * phase
TxSawtooth(tx) ==
    [tx EXCEPT !.state.current_value =
        FAdd(tx.config.min_range,
             FMul(FSub(tx.config.max_range, tx.config.min_range),
                  FDiv(fmod(tx.state.simulation_time, FInt(10)), FInt(10))))]

\* The ramp walk with the function's static `increasing'.  Each of these
\* gives <<the transmitter, increasing>>; v is the value after the step.
TxRampUp(tx, v) ==
    IF FGe(v, tx.config.max_range)
    THEN <<[tx EXCEPT !.state.current_value = tx.config.max_range], FALSE>>
    ELSE <<[tx EXCEPT !.state.current_value = v], TRUE>>
TxRampDown(tx, v) ==
    IF FLe(v, tx.config.min_range)
    THEN <<[tx EXCEPT !.state.current_value = tx.config.min_range], TRUE>>
    ELSE <<[tx EXCEPT !.state.current_value = v], FALSE>>
TxRamp(tx, increasing) ==
    IF increasing
    THEN TxRampUp(tx, FAdd(tx.state.current_value, tx.config.step_size))
    ELSE TxRampDown(tx, FSub(tx.state.current_value, tx.config.step_size))

\* the three waveforms, in the order the code tests them
TxWave(tx, increasing) ==
    IF tx.config.sine_wave THEN <<TxSine(tx), increasing>>
    ELSE IF tx.config.sawtooth_wave THEN <<TxSawtooth(tx), increasing>>
    ELSE TxRamp(tx, increasing)

\* fault = (current_value < min_scale || current_value > max_scale)
TxFault(tx) ==
    [tx EXCEPT !.state.fault =
        FLt(tx.state.current_value, tx.config.min_scale)
        \/ FGt(tx.state.current_value, tx.config.max_scale)]

TxFaultOf(w) == <<TxFault(w[1]), w[2]>>

TxModes_WaveFirst(tx, increasing) ==
    IF tx.config.sine_wave \/ tx.config.sawtooth_wave
    THEN TxFaultOf(TxWave(tx, increasing))
    ELSE IF tx.config.overflow
    THEN <<[tx EXCEPT !.state.current_value = tx.config.max_scale], increasing>>
    ELSE IF tx.config.underflow
    THEN <<[tx EXCEPT !.state.current_value = tx.config.min_scale], increasing>>
    ELSE TxFaultOf(TxWave(tx, increasing))

\* after simulation_time is advanced: overflow and underflow return before
\* the fault check, the waveforms fall through to it
TxModes(tx, increasing) ==
    IF tx.config.overflow
    THEN <<[tx EXCEPT !.state.current_value = tx.config.max_scale], increasing>>
    ELSE IF tx.config.underflow
    THEN <<[tx EXCEPT !.state.current_value = tx.config.min_scale], increasing>>
    ELSE TxFaultOf(TxWave(tx, increasing))

\* Transmitter_Update(tx, cycle_time_ms): <<the transmitter, increasing>>
Transmitter_Update(tx, increasing, cycle) ==
    IF ~tx.config.simulation_active THEN <<tx, increasing>>
    ELSE TxModes(TxAdvance(tx, TxTimeStep(cycle)), increasing)

\* onConfigChanged with the StepSize range test (newStep >= 0.1 && newStep <= 10.0) left out.
TxOnConfigChanged_AnyStep(tx, nodeName, dataType, value) ==
    IF nodeName = "StepSize"
    THEN IF dataType = "Double"
         THEN [tx EXCEPT !.config.step_size = value]
         ELSE tx
    ELSE IF dataType # "Boolean" THEN tx
    ELSE IF nodeName = "SimulationActive"
    THEN [tx EXCEPT !.config.simulation_active = value]
    ELSE IF nodeName = "SineWave"
    THEN [tx EXCEPT !.config.sine_wave = value,
                    !.config.sawtooth_wave = IF value THEN FALSE ELSE @]
    ELSE IF nodeName = "SawtoothWave"
    THEN [tx EXCEPT !.config.sawtooth_wave = value,
                    !.config.sine_wave = IF value THEN FALSE ELSE @]
    ELSE IF nodeName = "Overflow"
    THEN [tx EXCEPT !.config.overflow = value,
                    !.config.underflow = IF value THEN FALSE ELSE @]
    ELSE IF nodeName = "Underflow"
    THEN [tx EXCEPT !.config.underflow = value,
                    !.config.overflow = IF value THEN FALSE ELSE @]
    ELSE tx

\* onConfigChanged, the write callback of the six Configuration nodes, for a
\* scalar write of `value' of type dataType
TxOnConfigChanged(tx, nodeName, dataType, value) ==
    IF nodeName = "StepSize"
    THEN IF dataType = "Double" /\ FGe(value, FRat(1, 10)) /\ FLe(value, FInt(10))
         THEN [tx EXCEPT !.config.step_size = value]
         ELSE tx
    ELSE IF dataType # "Boolean" THEN tx
    ELSE IF nodeName = "SimulationActive"
    THEN [tx EXCEPT !.config.simulation_active = value]
    ELSE IF nodeName = "SineWave"
    THEN [tx EXCEPT !.config.sine_wave = value,
                    !.config.sawtooth_wave = IF value THEN FALSE ELSE @]
    ELSE IF nodeName = "SawtoothWave"
    THEN [tx EXCEPT !.config.sawtooth_wave = value,
                    !.config.sine_wave = IF value THEN FALSE ELSE @]
    ELSE IF nodeName = "Overflow"
    THEN [tx EXCEPT !.config.overflow = value,
                    !.config.underflow = IF value THEN FALSE ELSE @]
    ELSE IF nodeName = "Underflow"
    THEN [tx EXCEPT !.config.underflow = value,
                    !.config.overflow = IF value THEN FALSE ELSE @]
    ELSE tx

\* The transmitter program before main's loop has run.
TxAtStart ==
    /\ transmitter = Transmitter_Init
    /\ tx_increasing = TRUE
    /\ tx_calls = 0
    /\ tx_last = "init"

(***************************************************************************)
(* Three-phase separator: seperator.c                                      *)
(***************************************************************************)
GAS_CONSTANT == FRat(8314, 1000)
TEMPERATURE == FInt(300)
GAS_MOLAR_MASS == FRat(29, 1000)
GAMMA == FRat(14, 10)
\* pow(2/(GAMMA+1), GAMMA/(GAMMA-1))
CRITICAL_PRESSURE_RATIO ==
    pow(FDiv(FInt(2), FAdd(GAMMA, FInt(1))), FDiv(GAMMA, FSub(GAMMA, FInt(1))))
\* const double g = 9.81
g == FRat(981, 100)

\* the gas_mass Separator_Init computes from the initial pressure and levels
SepInitialGasMass(pressure, initial_gas_volume) ==
    FDiv(FMul(FMul(pressure, initial_gas_volume), GAS_MOLAR_MASS),
         FMul(GAS_CONSTANT, TEMPERATURE))

Separator_Init ==
    [config |-> [Q_in_oil    |-> FRat(5, 100),
                 Q_in_water  |-> FRat(3, 100),
                 Q_in_gas    |-> FRat(1, 10),
                 valve_oil   |-> FInt(45),
                 valve_water |-> FInt(35),
                 valve_gas   |-> FInt(25)],
     state  |-> [h_oil    |-> FRat(5, 10),
                 h_water  |-> FRat(5, 10),
                 pressure |-> FInt(150000)],
     area             |-> FInt(10),
     total_volume     |-> FInt(50),
     Cd               |-> FRat(6, 10),
     A_valve_liquid   |-> FRat(1, 100),
     A_valve_gas      |-> FRat(5, 1000),
     gas_mass         |-> SepInitialGasMass(FInt(150000),
                              FSub(FInt(50), FMul(FInt(10), FAdd(FRat(5, 10), FRat(5, 10))))),
     ambient_pressure |-> FInt(101325)]

\* dt = cycle_time_ms / 1000.0
SepDt(cycle) == FDiv(U32ToDouble(cycle), FInt(1000))

\* Q_out of a liquid: Cd * A_valve_liquid * (opening / 100.0) * sqrt(2 * g * h)
SepLiquidOut(sep, opening, h) ==
    FMul(FMul(FMul(sep.Cd, sep.A_valve_liquid), FDiv(opening, FInt(100))),
         FSqrt(FMul(FMul(FInt(2), g), h)))

\* h += (Q_in - Q_out) / area * dt
SepLevel(sep, h, Q_in, Q_out, dt) == FAdd(h, FMul(FDiv(FSub(Q_in, Q_out), sep.area), dt))

\* max_height = total_volume / area
SepMaxHeight(sep) == FDiv(sep.total_volume, sep.area)

\* h_oil = fmin(fmax(h_oil, 0.0), max_height)
SepClampOil(sep, h_oil) == fmin(fmax(h_oil, FZero), SepMaxHeight(sep))

SepClampWater_WholeHeight(sep, h_water, h_oil) == fmin(fmax(h_water, FZero), SepMaxHeight(sep))

\* h_water = fmin(fmax(h_water, 0.0), max_height - h_oil), h_oil already clamped
SepClampWater(sep, h_water, h_oil) ==
    fmin(fmax(h_water, FZero), FSub(SepMaxHeight(sep), h_oil))

SepSetLevels(sep, h_oil, h_water) ==
    [sep EXCEPT !.state.h_oil = h_oil,
                !.state.h_water = SepClampWater(sep, h_water, h_oil)]

\* 1. the liquid levels: both outflows are taken at the levels before the step
SepLevels(sep, dt) ==
    SepSetLevels(sep,
        SepClampOil(sep, SepLevel(sep, sep.state.h_oil, sep.config.Q_in_oil,
                                  SepLiquidOut(sep, sep.config.valve_oil, sep.state.h_oil), dt)),
        SepLevel(sep, sep.state.h_water, sep.config.Q_in_water,
                 SepLiquidOut(sep, sep.config.valve_water, sep.state.h_water), dt))

\* 2. V_gas = total_volume - area * (h_oil + h_water)
SepVGas(sep) ==
    FSub(sep.total_volume, FMul(sep.area, FAdd(sep.state.h_oil, sep.state.h_water)))

\* 3. the gas outflow: choked at or below the critical pressure ratio
SepChoked(sep) ==
    FMul(FMul(FMul(sep.Cd, sep.A_valve_gas), FDiv(sep.config.valve_gas, FInt(100))),
         FSqrt(FMul(FDiv(FMul(GAMMA, sep.state.pressure), GAS_MOLAR_MASS),
                    pow(FDiv(FInt(2), FAdd(GAMMA, FInt(1))),
                        FDiv(FAdd(GAMMA, FInt(1)), FSub(GAMMA, FInt(1)))))))
SepSubcritical(sep, P_ratio) ==
    FMul(FMul(FMul(sep.Cd, sep.A_valve_gas), FDiv(sep.config.valve_gas, FInt(100))),
         FSqrt(FMul(FMul(FDiv(FMul(FInt(2), sep.state.pressure), GAS_MOLAR_MASS),
                         FDiv(GAMMA, FSub(GAMMA, FInt(1)))),
                    FSub(pow(P_ratio, FDiv(FInt(2), GAMMA)),
                         pow(P_ratio, FDiv(FAdd(GAMMA, FInt(1)), GAMMA))))))
SepGasOutAt_Inverted(sep, P_ratio) ==
    IF FGe(P_ratio, CRITICAL_PRESSURE_RATIO) THEN SepChoked(sep) ELSE SepSubcritical(sep, P_ratio)
SepGasOutAt(sep, P_ratio) ==
    IF FLe(P_ratio, CRITICAL_PRESSURE_RATIO) THEN SepChoked(sep) ELSE SepSubcritical(sep, P_ratio)
SepGasOut(sep) == SepGasOutAt(sep, FDiv(sep.ambient_pressure, sep.state.pressure))

\* 4. Q_in_gas_mass = Q_in_gas * pressure * GAS_MOLAR_MASS / (GAS_CONSTANT * TEMPERATURE)
\*    gas_mass += (Q_in_gas_mass - Q_out_gas * GAS_MOLAR_MASS) * dt
SepGasIn(sep) ==
    FDiv(FMul(FMul(sep.config.Q_in_gas, sep.state.pressure), GAS_MOLAR_MASS),
         FMul(GAS_CONSTANT, TEMPERATURE))
SepGasMass(sep, dt) ==
    FAdd(sep.gas_mass, FMul(FSub(SepGasIn(sep), FMul(SepGasOut(sep), GAS_MOLAR_MASS)), dt))

SepFloor_None(pressure, ambient_pressure) == pressure

\* pressure = fmax(pressure, ambient_pressure)
SepFloor(pressure, ambient_pressure) == fmax(pressure, ambient_pressure)

\* 5. the ideal gas law on the new mass and volume, floored at ambient
SepPressure(sep, gas_mass, V_gas) ==
    SepFloor(FDiv(FMul(FMul(gas_mass, GAS_CONSTANT), TEMPERATURE),
                  FMul(V_gas, GAS_MOLAR_MASS)),
             sep.ambient_pressure)

SepSetGas(sep, gas_mass, V_gas) ==
    [sep EXCEPT !.gas_mass = gas_mass,
                !.state.pressure = SepPressure(sep, gas_mass, V_gas)]

\* steps 2 to 5, on the separator with its new levels and old pressure
SepGas(sep, dt) == SepSetGas(sep, SepGasMass(sep, dt), SepVGas(sep))

\* Separator_Update(sep, cycle_time_ms)
Separator_Update(sep, cycle) == SepGas(SepLevels(sep, SepDt(cycle)), SepDt(cycle))

\* onConfigChanged, the write callback of the six Config nodes, for a scalar
\* write whose data read as a double is `value'
SepOnConfigChanged(sep, browseName, value) ==
    IF browseName = "Q_in_oil" THEN [sep EXCEPT !.config.Q_in_oil = value]
    ELSE IF browseName = "Q_in_water" THEN [sep EXCEPT !.config.Q_in_water = value]
    ELSE IF browseName = "Q_in_gas" THEN [sep EXCEPT !.config.Q_in_gas = value]
    ELSE IF browseName = "valve_oil" THEN [sep EXCEPT !.config.valve_oil = value]
    ELSE IF browseName = "valve_water" THEN [sep EXCEPT !.config.valve_water = value]
    ELSE IF browseName = "valve_gas" THEN [sep EXCEPT !.config.valve_gas = value]
    ELSE sep

\* *(UA_Double*)data->value.data, read by onConfigChanged with no test of
\* data->value.type: the double written, or for a scalar of another type
\* whatever the eight bytes at the data hold (`stray')
SepDataAsDouble(dataType, value, stray) == IF dataType = "Double" THEN value ELSE stray

\* what a read of eight bytes from a shorter scalar can give, among others
SepStrayDoubles == { FZero, FInf(1) }

\* the six Config nodes of addSeparatorObject
SepNodes == { "Q_in_oil", "Q_in_water", "Q_in_gas", "valve_oil", "valve_water", "valve_gas" }

\* the callback on the write w = <<node, data type, value>>
SepWriteOf(sep, w, stray) ==
    SepOnConfigChanged(sep, w[1], SepDataAsDouble(w[2], w[3], stray))

\* The separator program before main's loop has run.
SepAtStart ==
    /\ separator = Separator_Init
    /\ sep_calls = 0

\* main before its first test of `running': the handler is installed, the
\* flag still holds its initializer.
DriverAtStart ==
    /\ running = TRUE
    /\ pc = "while"
    /\ polls = 0
    /\ stop_updates = 0

(***************************************************************************)
(* Specification Spec: the valve program.  UA_Server_run_iterate delivers  *)
(* point writes to onValueChanged; main then calls Valve_Update(100).      *)
(***************************************************************************)
Init ==
    /\ valve = Valve_Init
    /\ cycle_time_ms = U32(VALVE_CYCLE_MS)
    /\ ncalls = 0
    /\ valve0 = Valve_Init
    /\ DriverAtStart
    /\ FlowAtStart
    /\ TxAtStart
    /\ SepAtStart

ValveWrite ==
    /\ \E nodeId \in ValveNodes, isBoolean \in BOOLEAN, newValue \in BOOLEAN :
           valve' = onValueChanged(valve, nodeId, isBoolean, newValue)
    /\ UNCHANGED <<cycle_time_ms, ncalls, valve0, driverVars, flowVars, txVars, sepVars>>

ValveCycle ==
    /\ valve' = Valve_Update(valve, U32(VALVE_CYCLE_MS))
    /\ UNCHANGED <<cycle_time_ms, ncalls, valve0, driverVars, flowVars, txVars, sepVars>>

Next == ValveWrite \/ ValveCycle

Spec == Init /\ [][Next]_vars

(***************************************************************************)
(* Specification SpecValveFn: Valve_Update as a function of the OnOffValve *)
(* it is given.  The run starts from any OnOffValve of the bounded domain  *)
(* below (every ValveState value and one value outside the enum, every     *)
(* command pattern) and calls Valve_Update(cycle_time_ms) up to MaxCalls   *)
(* times with the inputs held.                                             *)
(***************************************************************************)
MaxCalls == 5

\* An int that is none of the five ValveState enumerators.
VALVE_UNDEFINED == 5

\* <<travel_time_ms, cycle_time_ms, state_timer>> the runs start with.
ValveRuns ==
    { <<U32(250), U32(100), U32(0)>>,
      <<U32(100), U32(100), U32(0)>>,
      <<U32(1),   U32(1),   U32(0)>>,
      <<U32(300), U32(100), U32(200)>>,
      <<U32(5000), U32(100), U32(4800)>>,
      <<U32Max, <<Half \div 2, 0>>, U32(0)>>,        \* 2^32-1, 2^31, 0
      <<U32Max, U32(100), <<Half - 1, Half - 96>>>>, \* 2^32-1, 100, 2^32-96
      <<U32Max, U32Max, U32(7)>> }

BoolTriples == { <<a, b, c>> : a \in BOOLEAN, b \in BOOLEAN, c \in BOOLEAN }

ValveFnStart ==
    { [param |-> [solenoid_count |-> n,
                  esd_latching   |-> FALSE,
                  travel_time_ms |-> r[1]],
       state |-> [current_state       |-> s,
                  target_state        |-> VALVE_CLOSED,
                  state_timer         |-> r[3],
                  esd_latched         |-> FALSE,
                  solenoids_energized |-> <<FALSE, FALSE, FALSE>>],
       io    |-> [solenoid_cmds    |-> c,
                  ls_open          |-> l[1],
                  ls_close         |-> l[2],
                  reset_cmd        |-> l[3],
                  solenoid_outputs |-> <<FALSE, FALSE, FALSE>>,
                  valve_moving     |-> s \in {VALVE_OPENING, VALVE_CLOSING},
                  fault            |-> f]] :
       n \in 1 .. 3, r \in ValveRuns, s \in VALVE_CLOSED .. VALVE_UNDEFINED,
       c \in BoolTriples, l \in BoolTriples, f \in BOOLEAN }

InitValveFn ==
    /\ valve \in ValveFnStart
    /\ \E r \in ValveRuns :
          /\ r[1] = valve.param.travel_time_ms
          /\ r[3] = valve.state.state_timer
          /\ cycle_time_ms = r[2]
    /\ ncalls = 0
    /\ valve0 = valve
    /\ DriverAtStart
    /\ FlowAtStart
    /\ TxAtStart
    /\ SepAtStart

ValveFnUpdate ==
    /\ ncalls < MaxCalls
    /\ valve' = Valve_Update(valve, cycle_time_ms)
    /\ ncalls' = ncalls + 1
    /\ UNCHANGED <<cycle_time_ms, valve0, driverVars, flowVars, txVars, sepVars>>

NextValveFn == ValveFnUpdate

SpecValveFn == InitValveFn /\ [][NextValveFn]_vars

(***************************************************************************)
(* Properties of the valve supervisor                                      *)
(***************************************************************************)
\* n * c >= t over the naturals (n a small count, c and t uint32_t).
U32TimesGeq(n, c, t) ==
    LET lo == n * c[2]
        hi == n * c[1] + (lo \div Half)
    IN  hi > t[1] \/ (hi = t[1] /\ (lo % Half) >= t[2])

\* k * c modulo 2^32
RECURSIVE U32Times(_, _)
U32Times(k, c) == IF k = 0 THEN U32(0) ELSE U32Add(U32Times(k - 1, c), c)

\* The run started in Closed with three solenoids, all commanded on.
HeldOpenFromClosed ==
    /\ valve0.param.solenoid_count = 3
    /\ valve0.state.current_state = VALVE_CLOSED
    /\ valve0.io.solenoid_cmds = <<TRUE, TRUE, TRUE>>

\* C1 as stated: after the N-th call the valve is Open iff
\* N * cycle_ms >= travel_time_ms.
C1_AsStated ==
    (HeldOpenFromClosed /\ ncalls >= 1) =>
        ((valve.state.current_state = VALVE_OPEN)
            <=> U32TimesGeq(ncalls, cycle_time_ms, valve.param.travel_time_ms))

\* C1 (amended): held open from Closed, the first call only moves Closed to
\* Opening with the timer at 0, so after the N-th call the valve is Open iff
\* some k in 1..N-1 has (k * cycle_ms mod 2^32) >= travel_time_ms; when
\* travel_time_ms + cycle_ms <= 2^32 (the timer meets the travel time before
\* it can wrap) that is: N >= 2 and (N-1) * cycle_ms >= travel_time_ms.
C1_OpenAfterTravelPlusOne ==
    (HeldOpenFromClosed /\ ncalls >= 1) =>
        /\ (valve.state.current_state = VALVE_OPEN)
              <=> \E k \in 1 .. (ncalls - 1) :
                     U32Geq(U32Times(k, cycle_time_ms), valve.param.travel_time_ms)
        /\ valve.state.current_state \in {VALVE_OPENING, VALVE_OPEN}
        /\ (U32AddFits(valve.param.travel_time_ms, cycle_time_ms)
             \/ U32Add(valve.param.travel_time_ms, cycle_time_ms) = U32(0))
             => ((valve.state.current_state = VALVE_OPEN)
                   <=> (ncalls >= 2 /\ U32TimesGeq(ncalls - 1, cycle_time_ms,
                                                   valve.param.travel_time_ms)))

\* travel 250 ms, cycle 100 ms: Open after the 4th call (timer 300).
C1_Witness ==
    /\ HeldOpenFromClosed
    /\ ncalls = 4
    /\ valve.param.travel_time_ms = U32(250)
    /\ cycle_time_ms = U32(100)
    /\ valve.state.current_state = VALVE_OPEN
    /\ valve.state.state_timer = U32(300)

\* C2: from Fault, calls with reset_cmd false leave the state Fault and the
\* fault output as it was (nothing at all changes); with reset_cmd true the
\* first call moves to Closed, clears fault and clears reset_cmd.
C2_FaultLatch ==
    (valve0.state.current_state = VALVE_FAULT) =>
        IF ~valve0.io.reset_cmd
        THEN /\ valve.state.current_state = VALVE_FAULT
             /\ valve.io.fault = valve0.io.fault
             /\ valve = valve0
        ELSE (ncalls = 1) =>
                /\ valve.state.current_state = VALVE_CLOSED
                /\ valve.io.fault = FALSE
                /\ valve.io.reset_cmd = FALSE

C2_Witness ==
    /\ valve0.state.current_state = VALVE_FAULT
    /\ valve0.io.reset_cmd
    /\ valve0.io.fault
    /\ ncalls = 1
    /\ valve.state.current_state = VALVE_CLOSED
    /\ ~valve.io.fault

\* C3: in the valve program, valve_moving is true iff the state is Opening
\* or Closing.
C3_MovingIffTravelling ==
    valve.io.valve_moving
        <=> (valve.state.current_state \in {VALVE_OPENING, VALVE_CLOSING})

C3_Witness ==
    /\ valve.state.current_state = VALVE_CLOSING
    /\ valve.io.valve_moving
    /\ valve.state.state_timer = U32(200)

\* C4: a Valve_Update that enters Opening or Closing leaves the timer 0; one
\* that stays in Opening or Closing adds cycle_time_ms to the timer (uint32_t
\* addition); one that starts in Closed, Open or Fault and does not enter
\* Opening or Closing leaves the timer as it was.
C4_TimerStep ==
    [][ (ncalls' = ncalls + 1) =>
          LET s == valve.state.current_state
              t == valve'.state.current_state
              travelling == {VALVE_OPENING, VALVE_CLOSING}
          IN  /\ (t # s /\ t \in travelling) => valve'.state.state_timer = U32(0)
              /\ (s \in travelling) =>
                    valve'.state.state_timer
                        = U32Add(valve.state.state_timer, cycle_time_ms)
              /\ (s \in travelling /\ t # s) =>
                    /\ t = (IF s = VALVE_OPENING THEN VALVE_OPEN ELSE VALVE_CLOSED)
                    /\ U32Geq(valve'.state.state_timer, valve.param.travel_time_ms)
              /\ (s \in {VALVE_CLOSED, VALVE_OPEN, VALVE_FAULT} /\ t \notin travelling)
                    => valve'.state.state_timer = valve.state.state_timer
      ]_vars

\* Open with the commands dropped and a stale timer: the call has entered
\* Closing and the timer is back at 0.
C4_Witness ==
    /\ valve0.state.current_state = VALVE_OPEN
    /\ valve0.state.state_timer = U32(4800)
    /\ ncalls = 1
    /\ valve.state.current_state = VALVE_CLOSING
    /\ valve.state.state_timer = U32(0)

(***************************************************************************)
(* Specification SpecFlowValve: the flow control valve program.            *)
(* UA_Server_run_iterate delivers point writes to onConfigChanged; main    *)
(* then calls FlowControlValve_Update, which reads the processor time.     *)
(***************************************************************************)
\* The point writes a client makes: <<node, type of the value, value>>.
FlowWrites ==
    { <<"ControlSignal", "Double", FInt(-20)>>,
      <<"ControlSignal", "Double", FInt(30)>>,
      <<"ControlSignal", "Double", FInt(100)>>,
      <<"ControlSignal", "Double", FInt(150)>>,
      <<"UpstreamPressure", "Double", FRat(5, 10)>>,
      <<"Kv", "Int32", 3>>,
      <<"ValveCharacteristic", "Int32", 0>>,
      <<"StictionThreshold", "Double", FZero>>,
      <<"DeadTime", "Double", FRat(5, 10)>>,
      <<"Hysteresis", "Double", FInt(5)>>,
      <<"PositionerError", "Double", FInt(10)>>,
      <<"PositionerError", "Double", FInt(-150)>> }

\* Processor time, in ticks, that may pass between two calls of clock().
ClockSteps == {0, 300000}

\* The processor time the program is followed for, in ticks.
MaxClock == 600000

InitFlowValve ==
    /\ FlowAtStart
    /\ TxAtStart
    /\ SepAtStart
    /\ valve = Valve_Init
    /\ cycle_time_ms = U32(VALVE_CYCLE_MS)
    /\ ncalls = 0
    /\ valve0 = Valve_Init
    /\ DriverAtStart

FlowWrite ==
    /\ \E w \in FlowWrites : fcv' = FlowOnConfigChanged(fcv, w[1], w[2], w[3])
    /\ fcv_last' = "write"
    /\ UNCHANGED <<fcv_clock, valveVars, txVars, sepVars>>

FlowCycle ==
    /\ \E d \in ClockSteps :
          /\ fcv_clock + d <= MaxClock
          /\ fcv_clock' = fcv_clock + d
          /\ fcv' = FlowControlValve_Update(fcv, U32(DEFAULT_CYCLE_TIME_MS), fcv_clock + d)
          /\ fcv_last' = IF FlowInDeadTime(fcv, fcv_clock + d) THEN "skipped" ELSE "accepted"
    /\ UNCHANGED <<valveVars, txVars, sepVars>>

NextFlowValve == FlowWrite \/ FlowCycle

SpecFlowValve == InitFlowValve /\ [][NextFlowValve]_vars

(***************************************************************************)
(* Properties of the flow control valve                                    *)
(***************************************************************************)
\* C5 as stated: after every accepted FlowControlValve_Update (kv >= 0) the
\* flow is a number, not negative, equal to Cv_eff * sqrt(max(upstream_pressure
\* - 1.0, 0)), and it is 0 whenever upstream_pressure < 1.0.
C5_FlowDefinedNonNegative ==
    (fcv_last = "accepted" /\ FGe(fcv.config.kv, FZero)) =>
        LET Cv_eff == FMul(fcv.config.kv,
                           FlowFraction(fcv.config.valve_characteristic, fcv.state.valve_opening))
            head == fmax(FSub(fcv.config.upstream_pressure, FInt(1)), FZero)
        IN  /\ ~IsNaN(fcv.state.flow)
            /\ FGe(fcv.state.flow, FZero)
            /\ fcv.state.flow = FMul(Cv_eff, FSqrt(head))
            /\ (FLt(fcv.config.upstream_pressure, FInt(1)) => IsZero(fcv.state.flow))

\* C6: in every state reachable from FlowControlValve_Init by point writes
\* (control signals below 0 and above 100, hysteresis, positioner error) and
\* FlowControlValve_Update calls, 0 <= valve_opening <= 100.
C6_OpeningInRange ==
    /\ FLe(FZero, fcv.state.valve_opening)
    /\ FLe(fcv.state.valve_opening, FInt(100))

\* A control signal of 150 with a positioner error of +10 % has been applied
\* and the opening is held at 100.
C6_Witness ==
    /\ fcv_last = "accepted"
    /\ fcv.config.control_signal = FInt(150)
    /\ fcv.error.positioner_error_percent = FInt(10)
    /\ fcv.state.valve_opening = FInt(100)

(***************************************************************************)
(* Specification SpecTransmitterFn: Transmitter_Update as a function of    *)
(* the Transmitter it is given.  The run is the transmitter program's loop *)
(* (point writes, then Transmitter_Update(DEFAULT_CYCLE_TIME_MS)), started *)
(* from Transmitter_Init with min_scale and max_scale, which the program   *)
(* never changes, taken from TxScales.                                     *)
(***************************************************************************)
MaxTxUpdates == 4

\* <<min_scale, max_scale>>: the defaults, and a scale inside the range
TxScales == { <<FInt(-5), FInt(105)>>, <<FInt(10), FInt(90)>> }

\* The point writes a client makes: <<node, type of the value, value>>.
TxWrites ==
    { <<"StepSize", "Double", FInt(10)>>,
      <<"StepSize", "Double", FRat(5, 100)>>,
      <<"StepSize", "Int32", 5>> }
    \cup { <<n, "Boolean", b>> :
             n \in {"SimulationActive", "SineWave", "SawtoothWave", "Overflow", "Underflow"},
             b \in BOOLEAN }

InitTransmitterFn ==
    /\ \E sc \in TxScales :
          transmitter = [Transmitter_Init EXCEPT !.config.min_scale = sc[1], !.config.max_scale = sc[2]]
    /\ tx_increasing = TRUE
    /\ tx_calls = 0
    /\ tx_last = "init"
    /\ valve = Valve_Init
    /\ cycle_time_ms = U32(VALVE_CYCLE_MS)
    /\ ncalls = 0
    /\ valve0 = Valve_Init
    /\ DriverAtStart
    /\ FlowAtStart
    /\ SepAtStart

\* UA_Server_run_iterate delivers one write to onConfigChanged.
TxWrite ==
    /\ \E w \in TxWrites : transmitter' = TxOnConfigChanged(transmitter, w[1], w[2], w[3])
    /\ tx_last' = "write"
    /\ UNCHANGED <<tx_increasing, tx_calls, valveVars, flowVars, sepVars>>

\* main's loop calls Transmitter_Update(&transmitter, DEFAULT_CYCLE_TIME_MS).
TxCycle ==
    /\ tx_calls < MaxTxUpdates
    /\ transmitter' = Transmitter_Update(transmitter, tx_increasing, U32(DEFAULT_CYCLE_TIME_MS))[1]
    /\ tx_increasing' = Transmitter_Update(transmitter, tx_increasing, U32(DEFAULT_CYCLE_TIME_MS))[2]
    /\ tx_calls' = tx_calls + 1
    /\ tx_last' = IF transmitter.config.simulation_active THEN "active" ELSE "idle"
    /\ UNCHANGED <<valveVars, flowVars, sepVars>>

NextTransmitterFn == TxWrite \/ TxCycle

SpecTransmitterFn == InitTransmitterFn /\ [][NextTransmitterFn]_vars

MaxSepUpdates == 3

\* The Config writes a client makes: <<node, data type, value>>.  The nodes
\* accept any double: a liquid inflow that fills the vessel in one cycle, no
\* gas inflow, a negative gas inflow, a gas inflow that takes the pressure
\* past the choked-flow boundary in one cycle, a shut gas valve; and a write of an
\* Int32, which the nodes (attr.dataType left at its default) accept too.
SepWrites ==
    { <<"Q_in_oil", "Double", FInt(1000)>>,
      <<"Q_in_gas", "Double", FZero>>,
      <<"Q_in_gas", "Double", FInt(-1000)>>,
      <<"Q_in_gas", "Double", FInt(200)>>,
      <<"valve_gas", "Double", FZero>>,
      <<"valve_gas", "Int32", 3>> }

InitSeparator ==
    /\ SepAtStart
    /\ valve = Valve_Init
    /\ cycle_time_ms = U32(VALVE_CYCLE_MS)
    /\ ncalls = 0
    /\ valve0 = Valve_Init
    /\ DriverAtStart
    /\ FlowAtStart
    /\ TxAtStart

SepWrite ==
    /\ \E w \in SepWrites, stray \in SepStrayDoubles :
           separator' = SepWriteOf(separator, w, stray)
    /\ UNCHANGED <<sep_calls, valveVars, flowVars, txVars>>

SepCycle ==
    /\ sep_calls < MaxSepUpdates
    /\ separator' = Separator_Update(separator, U32(DEFAULT_CYCLE_TIME_MS))
    /\ sep_calls' = sep_calls + 1
    /\ UNCHANGED <<valveVars, flowVars, txVars>>

NextSeparator == SepWrite \/ SepCycle

SpecSeparator == InitSeparator /\ [][NextSeparator]_vars

(***************************************************************************)
(* Specification SpecSeparatorFn: Separator_Update as a function of its    *)
(* arguments.  From Separator_Init, Config takes values of every kind a    *)
(* double has (large, negative, infinite, NaN) and the function is called  *)
(* with cycle times from SepCycleTimes, MaxSepFnCalls times at most.       *)
(***************************************************************************)
MaxSepFnCalls == 2

SepCycleTimes == { U32(0), U32(DEFAULT_CYCLE_TIME_MS), U32(60000) }

SepFnWrites ==
    { <<"Q_in_oil", "Double", FInt(1000)>>,
      <<"Q_in_oil", "Double", FNaN>>,
      <<"Q_in_water", "Double", FInt(1000)>>,
      <<"valve_oil", "Double", FInt(-20)>>,
      <<"valve_water", "Double", FInf(1)>> }

SepFnWrite ==
    /\ \E w \in SepFnWrites, stray \in SepStrayDoubles :
           separator' = SepWriteOf(separator, w, stray)
    /\ UNCHANGED <<sep_calls, valveVars, flowVars, txVars>>

SepFnUpdate ==
    /\ sep_calls < MaxSepFnCalls
    /\ \E cycle \in SepCycleTimes : separator' = Separator_Update(separator, cycle)
    /\ sep_calls' = sep_calls + 1
    /\ UNCHANGED <<valveVars, flowVars, txVars>>

NextSeparatorFn == SepFnWrite \/ SepFnUpdate

SpecSeparatorFn == InitSeparator /\ [][NextSeparatorFn]_vars

(***************************************************************************)
(* Properties of the separator                                             *)
(***************************************************************************)
\* C8: after every Separator_Update, for any Config values and any dt,
\* 0 <= h_oil <= max_height and 0 <= h_water <= max_height - h_oil, and
\* h_oil + h_water does not exceed max_height = total_volume / area.
C8_LevelsInVessel ==
    /\ FLe(FZero, separator.state.h_oil)
    /\ FLe(separator.state.h_oil, SepMaxHeight(separator))
    /\ FLe(FZero, separator.state.h_water)
    /\ FLe(separator.state.h_water, FSub(SepMaxHeight(separator), separator.state.h_oil))
    /\ FLe(FAdd(separator.state.h_oil, separator.state.h_water), SepMaxHeight(separator))

\* Oil and water inflows that would each fill the vessel have been applied:
\* the oil takes the whole height and the water is held at 0.
C8_Witness ==
    /\ sep_calls > 0
    /\ separator.config.Q_in_oil = FInt(1000)
    /\ separator.config.Q_in_water = FInt(1000)
    /\ separator.state.h_oil = SepMaxHeight(separator)
    /\ separator.state.h_water = FZero

\* C9: in every state reachable from Separator_Init by config writes and
\* Separator_Update calls, pressure >= ambient_pressure.
C9_PressureAtLeastAmbient ==
    FGe(separator.state.pressure, separator.ambient_pressure)

\* A negative gas inflow has driven gas_mass below zero and an update has
\* floored the pressure at ambient_pressure.
C9_Witness ==
    /\ sep_calls > 0
    /\ FLt(separator.gas_mass, FZero)
    /\ separator.state.pressure = separator.ambient_pressure

\* C10 as stated: a Separator_Update made with Q_in_gas = 0 and valve_gas = 0
\* leaves gas_mass as it was, whatever the liquid inflows, levels and
\* pressure are.
C10_GasMassConserved ==
    [][(/\ sep_calls' = sep_calls + 1
        /\ separator.config.Q_in_gas = FZero
        /\ separator.config.valve_gas = FZero)
       => separator'.gas_mass = separator.gas_mass]_vars

\* C11 as stated: Separator_Update treats valve_oil, valve_water and valve_gas
\* as clamped to [0,100]: the outflow it computes from the configured opening
\* is the outflow at that opening clamped to [0,100], and no liquid outflow
\* is negative.
C11_OpeningsClamped ==
    /\ SepLiquidOut(separator, separator.config.valve_oil, separator.state.h_oil)
         = SepLiquidOut(separator, fmin(fmax(separator.config.valve_oil, FZero), FInt(100)),
                        separator.state.h_oil)
    /\ SepLiquidOut(separator, separator.config.valve_water, separator.state.h_water)
         = SepLiquidOut(separator, fmin(fmax(separator.config.valve_water, FZero), FInt(100)),
                        separator.state.h_water)
    /\ SepGasOut(separator)
         = SepGasOut([separator EXCEPT !.config.valve_gas =
                          fmin(fmax(separator.config.valve_gas, FZero), FInt(100))])
    /\ ~FLt(SepLiquidOut(separator, separator.config.valve_oil, separator.state.h_oil), FZero)
    /\ ~FLt(SepLiquidOut(separator, separator.config.valve_water, separator.state.h_water), FZero)

\* C12 as stated: for each model's write handler (separator, flow valve,
\* transmitter, on/off valve) a write whose value type differs from the
\* point's declared type is not applied: every Config/input field is after
\* the handler what it was before.
C12_MismatchedWriteNotApplied ==
    /\ \A node \in SepNodes, stray \in SepStrayDoubles :
           SepWriteOf(separator, <<node, "Int32", 3>>, stray).config = separator.config
    /\ \A node \in {"ControlSignal", "UpstreamPressure", "Kv", "StictionThreshold",
                    "DeadTime", "Hysteresis", "PositionerError"} :
           FlowOnConfigChanged(fcv, node, "Int32", 3) = fcv
    /\ FlowOnConfigChanged(fcv, "ValveCharacteristic", "Double", FInt(1)) = fcv
    /\ TxOnConfigChanged(transmitter, "StepSize", "Int32", 5) = transmitter
    /\ \A node \in {"SimulationActive", "SineWave", "SawtoothWave", "Overflow", "Underflow"} :
           TxOnConfigChanged(transmitter, node, "Double", FInt(1)) = transmitter
    /\ \A nodeId \in ValveNodes, newValue \in BOOLEAN :
           onValueChanged(valve, nodeId, FALSE, newValue) = valve

\* the transmitter as an active Transmitter_Update finds it after advancing
\* simulation_time by the cycle time
TxAdvanced(tx) == TxAdvance(tx, TxTimeStep(U32(DEFAULT_CYCLE_TIME_MS)))

\* tx with the four mode flags set to fl = <<overflow, underflow, sine_wave,
\* sawtooth_wave>>
TxWithFlags(tx, fl) ==
    [tx EXCEPT !.config.overflow = fl[1], !.config.underflow = fl[2],
               !.config.sine_wave = fl[3], !.config.sawtooth_wave = fl[4]]

\* The mode precedence of an active update of tx that gave out = <<the
\* transmitter, increasing>>: the first true flag in the order overflow,
\* underflow, sine_wave, sawtooth_wave sets current_value, else the ramp
\* walk does, and simulation_time has advanced in each case.
TxPrecedence(tx, increasing, out) ==
    /\ out[1].state.simulation_time = TxAdvanced(tx).state.simulation_time
    /\ out[1].config = tx.config
    /\ tx.config.overflow => out[1].state.current_value = tx.config.max_scale
    /\ (~tx.config.overflow /\ tx.config.underflow)
          => out[1].state.current_value = tx.config.min_scale
    /\ (~tx.config.overflow /\ ~tx.config.underflow /\ tx.config.sine_wave)
          => out[1].state.current_value = TxSine(TxAdvanced(tx)).state.current_value
    /\ (~tx.config.overflow /\ ~tx.config.underflow /\ ~tx.config.sine_wave
           /\ tx.config.sawtooth_wave)
          => out[1].state.current_value = TxSawtooth(TxAdvanced(tx)).state.current_value
    /\ (~tx.config.overflow /\ ~tx.config.underflow /\ ~tx.config.sine_wave
           /\ ~tx.config.sawtooth_wave)
          => /\ out[1].state.current_value
                   = TxRamp(TxAdvanced(tx), increasing)[1].state.current_value
             /\ out[2] = TxRamp(TxAdvanced(tx), increasing)[2]

\* C13: in an active Transmitter_Update current_value is set by the first
\* true flag in the order overflow (max_scale), underflow (min_scale),
\* sine_wave, sawtooth_wave, else the ramp walk, and simulation_time advances
\* by dt in every one of these modes: for the update main has just made, and
\* for Transmitter_Update called on the same transmitter with each of the
\* sixteen settings of the four flags.
C13_ModePrecedence ==
    [][(tx_calls' = tx_calls + 1 /\ transmitter.config.simulation_active)
       => /\ TxPrecedence(transmitter, tx_increasing, <<transmitter', tx_increasing'>>)
          /\ \A fl \in BOOLEAN \X BOOLEAN \X BOOLEAN \X BOOLEAN :
                 TxPrecedence(TxWithFlags(transmitter, fl), tx_increasing,
                     Transmitter_Update(TxWithFlags(transmitter, fl), tx_increasing,
                                        U32(DEFAULT_CYCLE_TIME_MS)))]_vars

\* An active update has just run with overflow and sawtooth_wave both set,
\* after simulated time had passed: the value is pinned at max_scale and is
\* not the sawtooth's.
C13_Witness ==
    /\ tx_last = "active"
    /\ tx_calls >= 2
    /\ transmitter.config.overflow
    /\ transmitter.config.sawtooth_wave
    /\ transmitter.state.current_value = transmitter.config.max_scale
    /\ transmitter.state.current_value # TxSawtooth(transmitter).state.current_value
    /\ FGt(transmitter.state.simulation_time, FRat(1, 10))

(***************************************************************************)
(* Specification SpecSawtooth: the transmitter program left in its initial *)
(* sawtooth mode.  A client sets SimulationActive before main's loop makes *)
(* its first Transmitter_Update(DEFAULT_CYCLE_TIME_MS), or never; the loop *)
(* then runs MaxSawtoothCycles cycles.  The range is Transmitter_Init's or *)
(* another from TxRanges.                                                  *)
(***************************************************************************)
MaxSawtoothCycles == 102

\* <<min_range, max_range>>
TxRanges == { <<FZero, FInt(100)>>, <<FInt(-20), FInt(30)>> }

InitSawtooth ==
    /\ \E rg \in TxRanges :
          transmitter = [Transmitter_Init EXCEPT !.config.min_range = rg[1],
                                                 !.config.max_range = rg[2]]
    /\ tx_increasing = TRUE
    /\ tx_calls = 0
    /\ tx_last = "init"
    /\ valve = Valve_Init
    /\ cycle_time_ms = U32(VALVE_CYCLE_MS)
    /\ ncalls = 0
    /\ valve0 = Valve_Init
    /\ DriverAtStart
    /\ FlowAtStart
    /\ SepAtStart

\* the write of SimulationActive = true, before the first cycle
SawtoothSwitchOn ==
    /\ tx_calls = 0
    /\ ~transmitter.config.simulation_active
    /\ transmitter' = TxOnConfigChanged(transmitter, "SimulationActive", "Boolean", TRUE)
    /\ tx_last' = "write"
    /\ UNCHANGED <<tx_increasing, tx_calls, valveVars, flowVars, sepVars>>

SawtoothCycle ==
    /\ tx_calls < MaxSawtoothCycles
    /\ transmitter' = Transmitter_Update(transmitter, tx_increasing, U32(DEFAULT_CYCLE_TIME_MS))[1]
    /\ tx_increasing' = Transmitter_Update(transmitter, tx_increasing, U32(DEFAULT_CYCLE_TIME_MS))[2]
    /\ tx_calls' = tx_calls + 1
    /\ tx_last' = IF transmitter.config.simulation_active THEN "active" ELSE "idle"
    /\ UNCHANGED <<valveVars, flowVars, sepVars>>

NextSawtooth == SawtoothSwitchOn \/ SawtoothCycle

SpecSawtooth == InitSawtooth /\ [][NextSawtooth]_vars

\* C14 as stated: with simulation_active and sawtooth_wave true and overflow,
\* underflow and sine_wave false, after any number of updates current_value
\* = min_range + (max_range - min_range) * ((simulation_time mod 10) / 10),
\* it lies in [min_range, max_range), and with min_range = 0, max_range = 100
\* after 50 cycles of 100 ms (5.0 s) current_value is 50.0.
C14_Sawtooth ==
    (/\ tx_last = "active"
     /\ transmitter.config.sawtooth_wave
     /\ ~transmitter.config.sine_wave
     /\ ~transmitter.config.overflow
     /\ ~transmitter.config.underflow)
    => /\ transmitter.state.current_value
            = FAdd(transmitter.config.min_range,
                   FMul(FSub(transmitter.config.max_range, transmitter.config.min_range),
                        FDiv(fmod(transmitter.state.simulation_time, FInt(10)), FInt(10))))
       /\ FLe(transmitter.config.min_range, transmitter.state.current_value)
       /\ FLt(transmitter.state.current_value, transmitter.config.max_range)
       /\ (/\ tx_calls = 50
           /\ transmitter.config.min_range = FZero
           /\ transmitter.config.max_range = FInt(100))
          => transmitter.state.current_value = FInt(50)

(***************************************************************************)
(* Specification SpecFlowFn: the flow computed by FlowControlValve_Update  *)
(* as a function of the opening.  Kv, UpstreamPressure and the             *)
(* characteristic have been written to values from FlowKvs, FlowPressures  *)
(* and {Linear, EqualPercentage}; the client then writes control signals   *)
(* from FlowSignals and main calls FlowControlValve_Update.                *)
(***************************************************************************)
FlowKvs == { FZero, FInt(10) }

FlowPressures == { FInt(1), FInt(5) }

\* control signals, and the openings the flow is compared at
FlowSignals == { FInt(20 * i) : i \in 0..5 }

InitFlowFn ==
    /\ \E kv \in FlowKvs, upstream_pressure \in FlowPressures, valve_characteristic \in {0, 1} :
          fcv = [FlowControlValve_Init EXCEPT
                    !.config.kv = kv,
                    !.config.upstream_pressure = upstream_pressure,
                    !.config.valve_characteristic = valve_characteristic]
    /\ fcv_clock = 0
    /\ fcv_last = "init"
    /\ TxAtStart
    /\ SepAtStart
    /\ valve = Valve_Init
    /\ cycle_time_ms = U32(VALVE_CYCLE_MS)
    /\ ncalls = 0
    /\ valve0 = Valve_Init
    /\ DriverAtStart

FlowFnSignal ==
    /\ \E control_signal \in FlowSignals :
          fcv' = FlowOnConfigChanged(fcv, "ControlSignal", "Double", control_signal)
    /\ fcv_last' = "write"
    /\ UNCHANGED <<fcv_clock, valveVars, txVars, sepVars>>

NextFlowFn == FlowFnSignal \/ FlowCycle

SpecFlowFn == InitFlowFn /\ [][NextFlowFn]_vars

\* C15: for fixed kv >= 0 and upstream_pressure >= 1 and each characteristic,
\* the flow FlowControlValve_Update computes is non-decreasing in
\* valve_opening over [0,100]: the flow of an accepted update is at least the
\* flow at every smaller opening and at most the flow at every larger one;
\* and the characteristic's fraction is 0 at opening 0 and 1 at opening 100.
C15_FlowMonotone ==
    (/\ fcv_last = "accepted"
     /\ FGe(fcv.config.kv, FZero)
     /\ FGe(fcv.config.upstream_pressure, FInt(1)))
    => /\ fcv.state.flow = FlowRate(fcv, fcv.state.valve_opening)
       /\ \A o \in FlowSignals :
             /\ FLe(o, fcv.state.valve_opening) => FLe(FlowRate(fcv, o), fcv.state.flow)
             /\ FGe(o, fcv.state.valve_opening) => FGe(FlowRate(fcv, o), fcv.state.flow)
       /\ FlowFraction(fcv.config.valve_characteristic, FZero) = FZero
       /\ FlowFraction(fcv.config.valve_characteristic, FInt(100)) = FInt(1)

\* An equal-percentage valve with kv = 10 at 5 bar has been moved to an
\* opening of 40: its flow is above the flow at 20 and below the flow at 60.
C15_Witness ==
    /\ fcv_last = "accepted"
    /\ fcv.config.valve_characteristic = 1
    /\ fcv.config.kv = FInt(10)
    /\ fcv.config.upstream_pressure = FInt(5)
    /\ fcv.state.valve_opening = FInt(40)
    /\ FLt(FlowRate(fcv, FInt(20)), fcv.state.flow)
    /\ FLt(fcv.state.flow, FlowRate(fcv, FInt(60)))

\* the relative tolerance the two gas-outflow formulas are compared with
SepTolerance == FMul(FRat(1, 1000000), FRat(1, 1000000))

\* For the separator s as step 3 of Separator_Update finds it (new levels,
\* old pressure) and the gas_mass the update stored: the outflow that went
\* into gas_mass is the choked formula's exactly when ambient_pressure /
\* pressure <= CRITICAL_PRESSURE_RATIO and the subcritical formula's
\* otherwise; and at this pressure, with the pressure ratio equal to
\* CRITICAL_PRESSURE_RATIO, the two formulas agree within SepTolerance.
SepBoundary(s, dt, gas_mass) ==
    /\ FLe(FDiv(s.ambient_pressure, s.state.pressure), CRITICAL_PRESSURE_RATIO)
         => gas_mass = FAdd(s.gas_mass,
                            FMul(FSub(SepGasIn(s), FMul(SepChoked(s), GAS_MOLAR_MASS)), dt))
    /\ ~FLe(FDiv(s.ambient_pressure, s.state.pressure), CRITICAL_PRESSURE_RATIO)
         => gas_mass = FAdd(s.gas_mass,
                            FMul(FSub(SepGasIn(s),
                                      FMul(SepSubcritical(s, FDiv(s.ambient_pressure,
                                                                  s.state.pressure)),
                                           GAS_MOLAR_MASS)), dt))
    /\ \/ SepChoked(s) = SepSubcritical(s, CRITICAL_PRESSURE_RATIO)
       \/ FLe(fabs(FSub(SepChoked(s), SepSubcritical(s, CRITICAL_PRESSURE_RATIO))),
              FMul(SepTolerance, fabs(SepChoked(s))))

\* C16: Separator_Update selects the choked formula exactly when
\* ambient_pressure / pressure <= (2/(gamma+1))^(gamma/(gamma-1)) and the
\* subcritical formula otherwise, and at a pressure ratio exactly equal to
\* the critical ratio the two formulas give the same value within
\* floating-point tolerance.
C16_ChokedBoundary ==
    [][sep_calls' = sep_calls + 1
       => SepBoundary(SepLevels(separator, SepDt(U32(DEFAULT_CYCLE_TIME_MS))),
                      SepDt(U32(DEFAULT_CYCLE_TIME_MS)), separator'.gas_mass)]_vars

\* With Q_in_gas = 200 and the gas valve at its 25 %, the first update ran
\* subcritical (150 kPa) and took the pressure to 225 kPa, past ambient_pressure
\* / CRITICAL_PRESSURE_RATIO = 191.8 kPa; the second ran choked and left
\* 337608.6 Pa.
C16_Witness ==
    /\ sep_calls = 2
    /\ separator.config.Q_in_gas = FInt(200)
    /\ separator.config.valve_gas = FInt(25)
    /\ FGt(separator.state.pressure, FInt(337608))
    /\ FLt(separator.state.pressure, FInt(337609))
    /\ FLe(FDiv(separator.ambient_pressure, separator.state.pressure),
           CRITICAL_PRESSURE_RATIO)

\* C17: with all_energized the AND of solenoid_cmds[0..solenoid_count-1],
\* every change of current_state made by Valve_Update is Closed->Opening
\* (only if all_energized), Opening->Open or Closing->Closed (only if
\* state_timer >= travel_time_ms), Open->Closing (only if not all_energized),
\* Fault->Closed (only if reset_cmd) or undefined->Fault; and the next state
\* does not depend on ls_open, ls_close, esd_latching, esd_latched or on the
\* solenoid_cmds entries at index >= solenoid_count.
C17_TransitionRelation ==
    [][ncalls' = ncalls + 1
       => /\ valve'.state.current_state # valve.state.current_state
               => \/ /\ valve.state.current_state = VALVE_CLOSED
                     /\ valve'.state.current_state = VALVE_OPENING
                     /\ \A i \in 1 .. valve.param.solenoid_count : valve.io.solenoid_cmds[i]
                  \/ /\ valve.state.current_state = VALVE_OPENING
                     /\ valve'.state.current_state = VALVE_OPEN
                     /\ U32Geq(valve'.state.state_timer, valve.param.travel_time_ms)
                  \/ /\ valve.state.current_state = VALVE_CLOSING
                     /\ valve'.state.current_state = VALVE_CLOSED
                     /\ U32Geq(valve'.state.state_timer, valve.param.travel_time_ms)
                  \/ /\ valve.state.current_state = VALVE_OPEN
                     /\ valve'.state.current_state = VALVE_CLOSING
                     /\ \E i \in 1 .. valve.param.solenoid_count : ~valve.io.solenoid_cmds[i]
                  \/ /\ valve.state.current_state = VALVE_FAULT
                     /\ valve'.state.current_state = VALVE_CLOSED
                     /\ valve.io.reset_cmd
                  \/ /\ valve.state.current_state \notin VALVE_CLOSED .. VALVE_FAULT
                     /\ valve'.state.current_state = VALVE_FAULT
          /\ \A ls_open \in BOOLEAN, ls_close \in BOOLEAN,
                esd_latching \in BOOLEAN, esd_latched \in BOOLEAN :
                Valve_Update([valve EXCEPT !.io.ls_open = ls_open,
                                           !.io.ls_close = ls_close,
                                           !.param.esd_latching = esd_latching,
                                           !.state.esd_latched = esd_latched],
                             cycle_time_ms).state.current_state
                   = valve'.state.current_state
          /\ \A c \in BoolTriples :
                (\A i \in 1 .. valve.param.solenoid_count : c[i] = valve.io.solenoid_cmds[i])
                   => Valve_Update([valve EXCEPT !.io.solenoid_cmds = c],
                                   cycle_time_ms).state.current_state
                        = valve'.state.current_state]_vars

\* A valve with two solenoids, both commanded on and the unused third entry
\* off, with ls_open set, has left Closed for Opening in one call.
C17_Witness ==
    /\ ncalls = 1
    /\ valve0.state.current_state = VALVE_CLOSED
    /\ valve.state.current_state = VALVE_OPENING
    /\ valve.param.solenoid_count = 2
    /\ valve.io.solenoid_cmds = <<TRUE, TRUE, FALSE>>
    /\ valve.io.ls_open

C19_DeadTime ==
    [][fcv_last' \in {"skipped", "accepted"}
       => \E clk \in {fcv_clock'} :
             IF FLt(FSub(FDiv(FInt(clk), FInt(CLOCKS_PER_SEC)), fcv.error.last_update_time),
                    fcv.error.dead_time_seconds)
             THEN /\ fcv' = fcv
                  /\ fcv_last' = "skipped"
             ELSE /\ fcv'.error.last_update_time = FDiv(FInt(clk), FInt(CLOCKS_PER_SEC))
                  /\ fcv' = FlowMove(fcv, FDiv(FInt(clk), FInt(CLOCKS_PER_SEC)),
                                     FlowStiction(fcv, ClampPercent(fcv.config.control_signal)))
                  /\ fcv_last' = "accepted"]_vars

\* A call 0.3 s after the last accepted update, with a dead time of 0.5 s,
\* has been rejected: the control signal written as 150 is not taken up,
\* last_control_signal and valve_opening are still 50.
C19_Witness ==
    /\ fcv_last = "skipped"
    /\ fcv.error.dead_time_seconds = FRat(5, 10)
    /\ fcv_clock = 600000
    /\ fcv.error.last_update_time = FlowNow(300000)
    /\ fcv.config.control_signal = FInt(150)
    /\ fcv.error.last_control_signal = FInt(50)
    /\ fcv.state.valve_opening = FInt(50)

\* C20: an accepted FlowControlValve_Update follows the reference steps.
\* With c = clamp(control_signal, 0, 100), s = last_control_signal if
\* |c - last_control_signal| < stiction_threshold, else c, and h =
\* +hysteresis_percent if s > last_control_signal, -hysteresis_percent if
\* s < last_control_signal, 0 if equal: afterwards last_control_signal = s and
\* valve_opening = clamp(clamp(s + h, 0, 100) * (1 + positioner_error_percent
\* / 100), 0, 100).  With stiction, hysteresis, positioner error and dead
\* time 0, Linear, control_signal = 100, upstream_pressure = 5 and kv = 10
\* this gives valve_opening = 100 and flow = 20.
C20_ReferenceSteps ==
    [][fcv_last' = "accepted"
       => \E c \in {fmin(fmax(fcv.config.control_signal, FZero), FInt(100))} :
          \E s \in {IF FLt(fabs(FSub(c, fcv.error.last_control_signal)),
                           fcv.error.stiction_threshold)
                    THEN fcv.error.last_control_signal ELSE c} :
          \E h \in {IF FGt(s, fcv.error.last_control_signal)
                    THEN fcv.error.hysteresis_percent
                    ELSE IF FLt(s, fcv.error.last_control_signal)
                         THEN FNeg(fcv.error.hysteresis_percent)
                         ELSE FZero} :
             /\ fcv'.error.last_control_signal = s
             /\ fcv'.state.valve_opening
                   = fmin(fmax(FMul(fmin(fmax(FAdd(s, h), FZero), FInt(100)),
                                    FAdd(FInt(1),
                                         FDiv(fcv.error.positioner_error_percent,
                                              FInt(100)))),
                               FZero),
                          FInt(100))
             /\ (/\ fcv.error.stiction_threshold = FZero
                 /\ fcv.error.hysteresis_percent = FZero
                 /\ fcv.error.positioner_error_percent = FZero
                 /\ fcv.error.dead_time_seconds = FZero
                 /\ fcv.config.valve_characteristic = 0
                 /\ fcv.config.control_signal = FInt(100)
                 /\ fcv.config.upstream_pressure = FInt(5)
                 /\ fcv.config.kv = FInt(10))
                => /\ fcv'.state.valve_opening = FInt(100)
                   /\ fcv'.state.flow = FInt(20)]_vars

\* The reference case has been run: no stiction, hysteresis, positioner
\* error or dead time, Linear, control_signal = 100, upstream_pressure = 5,
\* kv = 10; the update was accepted and gave valve_opening 100 and flow 20.
C20_Witness ==
    /\ fcv_last = "accepted"
    /\ fcv.error.stiction_threshold = FZero
    /\ fcv.error.hysteresis_percent = FZero
    /\ fcv.error.positioner_error_percent = FZero
    /\ fcv.error.dead_time_seconds = FZero
    /\ fcv.config.valve_characteristic = 0
    /\ fcv.config.control_signal = FInt(100)
    /\ fcv.config.upstream_pressure = FInt(5)
    /\ fcv.config.kv = FInt(10)
    /\ fcv.error.last_control_signal = FInt(100)
    /\ fcv.state.valve_opening = FInt(100)
    /\ fcv.state.flow = FInt(20)

\* ---------------------------------------------------------------------------
\* Configuration invariant of the transmitter.

\* Step sizes a client may write: in range, on both limits, just outside, far
\* outside, negative, infinite and NaN.
TxStepProbes ==
    { FRat(1, 10), FInt(10), FRat(5, 100), FRat(1001, 100), FInt(-1), FZero,
      FInf(1), FInf(-1), FNaN }

\* The three parts of the invariant on one TransmitterModel value.
TxConfigOk(tx) ==
    /\ ~(tx.config.sine_wave /\ tx.config.sawtooth_wave)
    /\ ~(tx.config.overflow /\ tx.config.underflow)
    /\ FGe(tx.config.step_size, FRat(1, 10))
    /\ FLe(tx.config.step_size, FInt(10))

\* C21: in every state reachable from Transmitter_Init by point writes and
\* Transmitter_Update calls, sine_wave and sawtooth_wave are not both true,
\* overflow and underflow are not both true, and 0.1 <= step_size <= 10.0;
\* and no further write, of any step size or any flag, leaves that set.
C21_ConfigInvariant ==
    /\ TxConfigOk(transmitter)
    /\ \A v \in TxStepProbes :
          TxConfigOk(TxOnConfigChanged(transmitter, "StepSize", "Double", v))
    /\ \A n \in {"SimulationActive", "SineWave", "SawtoothWave", "Overflow", "Underflow"},
          b \in BOOLEAN :
          TxConfigOk(TxOnConfigChanged(transmitter, n, "Boolean", b))

\* A state where the writes have acted: SineWave was switched on over the
\* default sawtooth, Underflow over Overflow's slot, the step size was moved to
\* the upper limit, and a StepSize write of 0.05 is refused.
C21_Witness ==
    /\ tx_last = "write"
    /\ transmitter.config.sine_wave
    /\ ~transmitter.config.sawtooth_wave
    /\ transmitter.config.underflow
    /\ FEq(transmitter.config.step_size, FInt(10))
    /\ TxOnConfigChanged(transmitter, "StepSize", "Double", FRat(5, 100)) = transmitter
    /\ tx_calls > 0

\* ---------------------------------------------------------------------------
\* Point writes of the on/off valve.

\* travel times a client may write to the TravelTime node (UInt32)
ValveTravelWrites == { U32(100), U32(1000), U32(5000) }

\* C22: for every writable point of the on/off valve (SolenoidESD,
\* SolenoidPSD, SolenoidPCS, ResetLatch, TravelTime, ESDLatching) a write of a
\* correctly typed value sets the corresponding field of the model
\* (solenoid_cmds[i], reset_cmd, travel_time_ms, esd_latching).
C22_WritesReachModel ==
    /\ \A b \in BOOLEAN :
          /\ onValueChanged(valve, "SolenoidESD", TRUE, b).io.solenoid_cmds[SOLENOID_ESD + 1] = b
          /\ onValueChanged(valve, "SolenoidPSD", TRUE, b).io.solenoid_cmds[SOLENOID_PSD + 1] = b
          /\ onValueChanged(valve, "SolenoidPCS", TRUE, b).io.solenoid_cmds[SOLENOID_PCS + 1] = b
          /\ onValueChanged(valve, "ResetLatch", TRUE, b).io.reset_cmd = b
          /\ onValueChanged(valve, "ESDLatching", TRUE, b).param.esd_latching = b
    /\ \A t \in ValveTravelWrites :
          onValueChanged(valve, "TravelTime", FALSE, t).param.travel_time_ms = t

(***************************************************************************)
(* Specification SpecDriver: main's loop of the valve program, step by     *)
(* step, with the signal handler.  pc is the statement main is at:        *)
(*   "while"    the test of `running'                                       *)
(*   "iterate"  inside UA_Server_run_iterate, which runs the write callbacks*)
(*   "update"   the call of Valve_Update                                    *)
(*   "publish"  printf, the four UA_Server_writeValue calls and the sleep   *)
(*   "shutdown" UA_Server_run_shutdown and UA_Server_delete                 *)
(*   "exit"     main has returned                                           *)
(***************************************************************************)
MaxStopUpdates == 2

\* void stopHandler(int sign): SIGINT or SIGTERM may be delivered at any
\* statement of main.
stopHandler ==
    /\ pc # "exit"
    /\ running' = FALSE
    /\ UNCHANGED <<pc, polls, stop_updates, valve, cycle_time_ms, ncalls, valve0,
                   flowVars, txVars, sepVars>>

\* while (running) that leaves the loop although the flag is clear.
DriverPoll_IgnoreFlag ==
    /\ pc = "while"
    /\ pc' = "iterate"
    /\ polls' = polls + 1
    /\ UNCHANGED <<running, stop_updates, valve, cycle_time_ms, ncalls, valve0,
                   flowVars, txVars, sepVars>>

\* while (running): the one read of the flag in a cycle.
DriverPoll ==
    /\ pc = "while"
    /\ pc' = IF running THEN "iterate" ELSE "shutdown"
    /\ polls' = polls + 1
    /\ UNCHANGED <<running, stop_updates, valve, cycle_time_ms, ncalls, valve0,
                   flowVars, txVars, sepVars>>

\* UA_Server_run_iterate(server, true) handles a client's write: the node's
\* onWrite callback onValueChanged runs inside the call.
DriverWrite ==
    /\ pc = "iterate"
    /\ \E nodeId \in ValveNodes, isBoolean \in BOOLEAN, newValue \in BOOLEAN :
           valve' = onValueChanged(valve, nodeId, isBoolean, newValue)
    /\ UNCHANGED <<driverVars, cycle_time_ms, ncalls, valve0, flowVars, txVars, sepVars>>

\* UA_Server_run_iterate returns.
DriverIterateReturn ==
    /\ pc = "iterate"
    /\ pc' = "update"
    /\ UNCHANGED <<running, polls, stop_updates, valve, cycle_time_ms, ncalls, valve0,
                   flowVars, txVars, sepVars>>

\* Valve_Update(&valve, 100)
DriverUpdate ==
    /\ pc = "update"
    /\ valve' = Valve_Update(valve, U32(VALVE_CYCLE_MS))
    /\ pc' = "publish"
    /\ stop_updates' = IF ~running /\ stop_updates < MaxStopUpdates
                       THEN stop_updates + 1 ELSE stop_updates
    /\ UNCHANGED <<running, polls, cycle_time_ms, ncalls, valve0, flowVars, txVars, sepVars>>

\* The four UA_Server_writeValue calls of the loop body; each runs the
\* node's onWrite callback with the value main publishes.
DriverPublished(v) ==
    onValueChanged(
        onValueChanged(
            onValueChanged(
                onValueChanged(v, "ValveState", FALSE, FALSE),
                "ValveMoving", TRUE, v.io.valve_moving),
            "LimitSwitchOpen", TRUE, v.io.ls_open),
        "LimitSwitchClose", TRUE, v.io.ls_close)

\* printf, the publication of ValveState, ValveMoving, LimitSwitchOpen and
\* LimitSwitchClose, and usleep(100 * 1000); the next cycle starts.
DriverPublish ==
    /\ pc = "publish"
    /\ valve' = DriverPublished(valve)
    /\ pc' = "while"
    /\ polls' = 0
    /\ UNCHANGED <<running, stop_updates, cycle_time_ms, ncalls, valve0,
                   flowVars, txVars, sepVars>>

\* UA_Server_run_shutdown(server); UA_Server_delete(server); return EXIT_SUCCESS
DriverShutdown ==
    /\ pc = "shutdown"
    /\ pc' = "exit"
    /\ UNCHANGED <<running, polls, stop_updates, valve, cycle_time_ms, ncalls, valve0,
                   flowVars, txVars, sepVars>>

\* the statements of main: every one of them returns, so main always gets
\* to take its next step
DriverMain ==
    DriverPoll \/ DriverIterateReturn \/ DriverUpdate \/ DriverPublish \/ DriverShutdown

NextDriver ==
    \/ stopHandler
    \/ DriverPoll
    \/ DriverWrite
    \/ DriverIterateReturn
    \/ DriverUpdate
    \/ DriverPublish
    \/ DriverShutdown

SpecDriver == Init /\ [][NextDriver]_vars

\* main is the only thread and none of its statements blocks for ever.
SpecDriverFair == SpecDriver /\ WF_vars(DriverMain)

\* the flag is read exactly once before the body of a cycle runs
DriverPolledOnce ==
    /\ polls \in {0, 1}
    /\ pc \in {"iterate", "update", "publish"} => polls = 1
    /\ pc = "while" => polls = 0

\* the steps of one cycle come in the order I/O, Update, publish; the model
\* changes only by a write callback during the I/O step or by Valve_Update.
DriverOrdered ==
    /\ pc = "while" /\ pc' # pc => pc' \in {"iterate", "shutdown"} /\ valve' = valve
    /\ pc = "iterate" /\ pc' # pc => pc' = "update" /\ valve' = valve
    /\ pc = "iterate" /\ valve' # valve =>
          \E nodeId \in ValveNodes, newValue \in BOOLEAN :
              valve' = onValueChanged(valve, nodeId, TRUE, newValue)
    /\ pc = "update" /\ pc' # pc =>
          pc' = "publish" /\ valve' = Valve_Update(valve, U32(VALVE_CYCLE_MS))
    /\ pc = "publish" /\ pc' # pc => pc' = "while" /\ valve' = valve
    /\ pc = "shutdown" /\ pc' # pc => pc' = "exit"
    /\ pc' = pc /\ pc # "iterate" => valve' = valve
    /\ pc \in {"shutdown", "exit"} => valve' = valve /\ pc' # "update"

\* C23: in each cycle the protocol I/O step, during which all point writes
\* are applied, completes before Valve_Update starts, and the state is
\* published after Valve_Update returns, so no write lands in the middle of
\* an Update; the flag is read once per cycle; once stopHandler has cleared
\* it at most the cycle in progress is finished, no Update starts after the
\* next poll, and the server shutdown is eventually executed.
C23_LoopOrderAndShutdown ==
    /\ [](DriverPolledOnce /\ stop_updates <= 1
          /\ (pc \in {"shutdown", "exit"} => ~running))
    /\ [][DriverOrdered]_vars
    /\ (~running ~> pc = "exit")

\* The stop signal arrived while the valve was opening and a cycle was in
\* progress: that cycle's Update ran, the next poll left the loop and the
\* server was shut down.
C23_Witness ==
    /\ pc = "exit"
    /\ ~running
    /\ stop_updates = 1
    /\ valve.state.current_state = VALVE_OPENING

\* ---------------------------------------------------------------------------
\* The Fault state in normal operation.

\* no fault, no latch and no solenoid output on one OnOffValve value
ValveNoFault(v) ==
    /\ v.state.current_state \in VALVE_CLOSED .. VALVE_CLOSING
    /\ ~v.io.fault
    /\ ~v.state.esd_latched
    /\ v.io.solenoid_outputs = <<FALSE, FALSE, FALSE>>

\* C24: starting from Valve_Init, after any sequence of point writes and
\* Valve_Update calls, current_state is never Fault, fault is never true,
\* esd_latched is never true and solenoid_outputs stay all false; and from
\* every such state a Valve_Update with any other travel time and cycle time
\* (those of ValveRuns, the wrapping ones included), or with reset_cmd and
\* the limit switches set either way, keeps it so.
C24_FaultUnreachable ==
    /\ ValveNoFault(valve)
    /\ \A r \in ValveRuns :
          /\ ValveNoFault(Valve_Update([valve EXCEPT !.param.travel_time_ms = r[1]], r[2]))
          /\ ValveNoFault(Valve_Update([valve EXCEPT !.param.travel_time_ms = r[1],
                                                     !.state.state_timer = r[3]], r[2]))
    /\ \A reset \in BOOLEAN, ls \in BOOLEAN :
          ValveNoFault(Valve_Update([valve EXCEPT !.io.reset_cmd = reset,
                                                  !.io.ls_open = ls,
                                                  !.io.ls_close = ~ls],
                                    U32(VALVE_CYCLE_MS)))

\* The valve has been through Closed, Opening and Open and is half way
\* through the closing stroke after a solenoid was de-energized.
C24_Witness ==
    /\ valve.state.current_state = VALVE_CLOSING
    /\ valve.state.state_timer = U32(2500)
    /\ ~valve.io.solenoid_cmds[SOLENOID_PSD + 1]
    /\ valve.io.valve_moving
    /\ ValveNoFault(valve)

\* ---------------------------------------------------------------------------
\* Shutdown response of the on/off valve.

\* at least one of the first solenoid_count commands is de-energized, the
\* valve is in one of the four operating states, the cycle time is positive,
\* and travel time, cycle time and timer are all below 2^16 ms, which leaves
\* the timer far from 2^32 over the calls counted here
ValveTripHeld(v, cycle) ==
    /\ ~all_solenoids_energized(v)
    /\ v.state.current_state \in VALVE_CLOSED .. VALVE_CLOSING
    /\ cycle[1] = 0 /\ cycle[2] > 0
    /\ v.param.travel_time_ms[1] = 0 /\ v.param.travel_time_ms[2] > 0
    /\ v.state.state_timer[1] = 0

\* 2 * ceil(travel_time_ms / cycle_ms) + 1, for values below 2^16
ValveTripCalls(v, cycle) ==
    2 * ((v.param.travel_time_ms[2] + cycle[2] - 1) \div cycle[2]) + 1

\* one Valve_Update of a tripped valve: Closed stays Closed, Opening goes on
\* to Open, Open starts Closing, Closing goes on to Closed
ValveTripStep ==
    ValveTripHeld(valve, cycle_time_ms) =>
        /\ valve.state.current_state = VALVE_CLOSED =>
              valve'.state.current_state = VALVE_CLOSED
        /\ valve.state.current_state = VALVE_OPENING =>
              valve'.state.current_state \in {VALVE_OPENING, VALVE_OPEN}
        /\ valve.state.current_state = VALVE_OPEN =>
              valve'.state.current_state = VALVE_CLOSING
        /\ valve.state.current_state = VALVE_CLOSING =>
              valve'.state.current_state \in {VALVE_CLOSING, VALVE_CLOSED}

ValveStrokeStart ==
    /\ valve0.state.current_state \in {VALVE_OPENING, VALVE_CLOSING}
    /\ valve0.state.state_timer = U32(0)
    /\ valve0.param.travel_time_ms # U32(0)
    /\ cycle_time_ms # U32(0)

\* C26: for every travel_time_ms > 0 and cycle_time_ms > 0 of 32 unsigned
\* bits, state_timer never wraps around modulo 2^32 while in Opening or
\* Closing, so a valve in Opening reaches Open, and a valve in Closing reaches
\* Closed, after exactly ceil(travel_time_ms / cycle_time_ms) calls: while
\* ncalls * cycle_time_ms < travel_time_ms the stroke is still running and the
\* next addition fits 32 bits, and at the first ncalls with
\* ncalls * cycle_time_ms >= travel_time_ms the end state has been reached.
C26_TimerNeverWraps ==
    ValveStrokeStart =>
        /\ ~U32TimesGeq(ncalls, cycle_time_ms, valve0.param.travel_time_ms) =>
              /\ valve.state.current_state = valve0.state.current_state
              /\ U32AddFits(valve.state.state_timer, cycle_time_ms)
        /\ (ncalls >= 1
            /\ U32TimesGeq(ncalls, cycle_time_ms, valve0.param.travel_time_ms)
            /\ ~U32TimesGeq(ncalls - 1, cycle_time_ms, valve0.param.travel_time_ms)) =>
              valve.state.current_state =
                  IF valve0.state.current_state = VALVE_OPENING
                  THEN VALVE_OPEN ELSE VALVE_CLOSED

\* ---------------------------------------------------------------------------
\* The gas volume the pressure is computed from.

\* Config within the documented ranges: inflows >= 0 (and finite), valve
\* openings in [0, 100]
SepConfigInRange(sep) ==
    /\ \A q \in {sep.config.Q_in_oil, sep.config.Q_in_water, sep.config.Q_in_gas} :
          IsFinite(q) /\ FGe(q, FZero)
    /\ \A o \in {sep.config.valve_oil, sep.config.valve_water, sep.config.valve_gas} :
          FGe(o, FZero) /\ FLe(o, FInt(100))

\* a separator whose state is that of a vessel with gas in it: finite
\* pressure and gas mass, a positive gas volume
SepGasSpace(sep) ==
    /\ IsFinite(sep.state.pressure)
    /\ IsFinite(sep.gas_mass)
    /\ FGt(SepVGas(sep), FZero)

\* C27: in every state reachable from Separator_Init with Config within the
\* documented ranges, the next Separator_Update recomputes the pressure from
\* a strictly positive gas volume V_gas = total_volume - area*(h_oil+h_water)
\* and the pressure it stores is finite.
C27_GasVolumePositive ==
    (SepConfigInRange(separator) /\ SepGasSpace(separator)) =>
        SepGasSpace(Separator_Update(separator, U32(DEFAULT_CYCLE_TIME_MS)))

=============================================================================
